---- MODULE Spec2Model ----
(***************************************************************************)
(* Model of the declarative filter-to-query compiler                       *)
(* (AsyncQueryFilterEngine, its grammar in models/filter/models.py and the  *)
(* FilterService entry point) over a small tabular store.                   *)
(*                                                                          *)
(* Python values are tagged records [k |-> kind, v |-> payload]; None is    *)
(* [k |-> "none"].  A compiled SQL query is a record holding its WHERE      *)
(* clauses, ORDER BY, OFFSET and LIMIT; the storage collaborator evaluates  *)
(* it over the rows of the store.                                           *)
(*                                                                          *)
(* The collaborators around the compiler are modelled at the end of the     *)
(* module: the message consumer of services/broker.py (consumer, message)   *)
(* and the connection injector of injectors/pg.py (inj).                    *)
(***************************************************************************)
EXTENDS Integers, Sequences, FiniteSets, TLC

VARIABLES
    store,      \* rows of the bound entity's table, in physical order
    config,     \* the engine's FilterConfig (self._config)
    pc,         \* position of the request: idle, count, fetch, done, raised
    entry,      \* entry point of the request in flight
    arg,        \* its raw input
    fq,         \* the validated query object the entry point compiles
    count_query,\* compiled COUNT query (None until compiled)
    query,      \* compiled data query (None until compiled)
    total,      \* result of the count execution
    items,      \* result of the page fetch
    err,        \* exception the request ended with (None if none)
    calls,      \* executions issued on the session, in order
    writes,     \* number of writes to the store since the request started
    pure_in,    \* input of the pure function under check
    pure_out,   \* its result
    tasks,      \* per caller, the locals of its coroutine on the shared engine
    consumer,   \* the broker service's _AsyncRabbitConsumer and its consuming loop
    message,    \* the message delivered last, with what _process_message did
    inj         \* the AsyncPgConnectionInj, its engines and the tasks using it

vars == <<store, config, pc, entry, arg, fq, count_query, query,
          total, items, err, calls, writes, pure_in, pure_out, tasks,
          consumer, message, inj>>

(***************************************************************************)
(* Python values                                                            *)
(***************************************************************************)
None == [k |-> "none"]
IntV(n) == [k |-> "int", v |-> n]
StrV(s) == [k |-> "str", v |-> s]
BoolV(b) == [k |-> "bool", v |-> b]
FloatV(n) == [k |-> "float", v |-> n]      \* the float n.0
DateV(d) == [k |-> "date", v |-> d]        \* datetime.date, by its ISO text
ListV(l) == [k |-> "list", v |-> l]
InfV == [k |-> "inf"]                      \* float('inf'), as JSON 1e999 parses

IsNone(x) == x.k = "none"

\* A local variable: the value v under the name the body K gives it
Let(v, K(_)) == K(v)

(***************************************************************************)
(* Text of values: str(), repr(), str.lower(), int(), float(), dates        *)
(***************************************************************************)
\* Integers whose decimal text int()/float() recognise in this model.
IntPool == {0 - 1, 0, 1, 2, 3, 5, 20, 30, 40, 50, 1000, 5000}

Digit(d) ==
    CASE d = 0 -> "0" [] d = 1 -> "1" [] d = 2 -> "2" [] d = 3 -> "3"
      [] d = 4 -> "4" [] d = 5 -> "5" [] d = 6 -> "6" [] d = 7 -> "7"
      [] d = 8 -> "8" [] d = 9 -> "9"

RECURSIVE NatToStr(_)
NatToStr(n) == IF n < 10 THEN Digit(n) ELSE NatToStr(n \div 10) \o Digit(n % 10)

IntToStr(n) == IF n < 0 THEN "-" \o NatToStr(0 - n) ELSE NatToStr(n)

RECURSIVE py_repr(_)
RECURSIVE JoinRepr(_)
\* ", ".join(repr(e) for e in l)
JoinRepr(l) ==
    IF Len(l) = 0 THEN ""
    ELSE IF Len(l) = 1 THEN py_repr(l[1])
    ELSE py_repr(l[1]) \o ", " \o JoinRepr(Tail(l))

\* repr(x)
py_repr(x) ==
    CASE x.k = "int" -> IntToStr(x.v)
      [] x.k = "str" -> "'" \o x.v \o "'"
      [] x.k = "bool" -> IF x.v THEN "True" ELSE "False"
      [] x.k = "float" -> IntToStr(x.v) \o ".0"
      [] x.k = "inf" -> "inf"
      [] x.k = "date" -> "datetime.date(" \o x.v \o ")"
      [] x.k = "list" -> "[" \o JoinRepr(x.v) \o "]"
      [] x.k = "none" -> "None"

\* str(x)
py_str(x) ==
    CASE x.k = "str" -> x.v
      [] x.k = "date" -> x.v
      [] OTHER -> py_repr(x)

\* s.lower(), over the texts that occur
lower(s) ==
    CASE s = "True" -> "true"
      [] s = "TRUE" -> "true"
      [] s = "False" -> "false"
      [] s = "Yes" -> "yes"
      [] s = "ON" -> "on"
      [] s = "A" -> "a"
      [] s = "AND" -> "and"
      [] s = "OR" -> "or"
      [] s = "All" -> "all"
      [] OTHER -> s

\* int(s) for a string: the integer whose decimal text s is
IsIntText(s) == \E n \in IntPool : IntToStr(n) = s
IntOfText(s) == CHOOSE n \in IntPool : IntToStr(n) = s
\* float(s) also reads "n.0"
IsFloatText(s) == IsIntText(s) \/ \E n \in IntPool : IntToStr(n) \o ".0" = s
FloatOfText(s) ==
    IF IsIntText(s) THEN IntOfText(s)
    ELSE CHOOSE n \in IntPool : IntToStr(n) \o ".0" = s

\* str.replace('Z', '+00:00'), over the texts that occur
replace_Z(s) ==
    CASE s = "2024-05-01T10:00:00Z" -> "2024-05-01T10:00:00+00:00"
      [] OTHER -> s

\* datetime.fromisoformat(s).date(): the ISO texts that parse, and their date
IsIsoText(s) == s \in {"2024-05-01", "2024-05-01T10:00:00+00:00"}
DateOfIso(s) == "2024-05-01"

\* Raised(e) marks a Python call that raised e instead of returning
Raised(e) == [k |-> "raised", exc |-> e]
IsRaised(x) == x.k = "raised"

\* int(x)
py_int(x) ==
    CASE x.k = "int" -> x
      [] x.k = "bool" -> IntV(IF x.v THEN 1 ELSE 0)
      [] x.k = "float" -> IntV(x.v)
      [] x.k = "inf" -> Raised("OverflowError")
      [] x.k = "str" -> IF IsIntText(x.v) THEN IntV(IntOfText(x.v))
                        ELSE Raised("ValueError")
      [] OTHER -> Raised("TypeError")

\* float(x)
py_float(x) ==
    CASE x.k = "int" -> FloatV(x.v)
      [] x.k = "bool" -> FloatV(IF x.v THEN 1 ELSE 0)
      [] x.k = "float" -> x
      [] x.k = "inf" -> x
      [] x.k = "str" -> IF IsFloatText(x.v) THEN FloatV(FloatOfText(x.v))
                        ELSE IF x.v = "inf" THEN InfV
                        ELSE Raised("ValueError")
      [] OTHER -> Raised("TypeError")

\* lambda x: str(x).lower() in ('true', '1', 'yes', 'on')
conv_bool(x) == BoolV(lower(py_str(x)) \in {"true", "1", "yes", "on"})

\* lambda x: datetime.fromisoformat(str(x).replace('Z', '+00:00')).date()
conv_date(x) ==
    Let(replace_Z(py_str(x)), LAMBDA s :
        IF IsIsoText(s) THEN DateV(DateOfIso(s)) ELSE Raised("ValueError"))

TypeHints == {"str", "int", "float", "bool", "date"}

\* converters[type_hint](value); an unknown hint raises KeyError
converters(type_hint, value) ==
    CASE type_hint = "str" -> StrV(py_str(value))
      [] type_hint = "int" -> py_int(value)
      [] type_hint = "float" -> py_float(value)
      [] type_hint = "bool" -> conv_bool(value)
      [] type_hint = "date" -> conv_date(value)
      [] OTHER -> Raised("KeyError")

\* except (KeyError, ValueError, TypeError)
Caught == {"KeyError", "ValueError", "TypeError"}

\* AsyncQueryFilterEngine._cast_value; type_hint is a text or None.  The
\* result is the value returned, or the exception that escapes the except
\* clause
_cast_value(value, type_hint) ==
    IF IsNone(type_hint) \/ (type_hint.k = "str" /\ type_hint.v = "")
       \/ IsNone(value)
    THEN value
    ELSE Let(converters(type_hint.v, value), LAMBDA r :
             IF IsRaised(r) /\ r.exc \in Caught THEN value ELSE r)

(***************************************************************************)
(* Operator registry: class Op                                              *)
(***************************************************************************)
\* The members of the enum, in definition (iteration) order
Op == <<"EQ", "NE", "GT", "GTE", "LT", "LTE", "IN", "NOT_IN", "LIKE", "ILIKE">>

OpSet == {Op[i] : i \in 1..Len(Op)}

\* op.symbol
symbol(op) ==
    CASE op = "EQ" -> "=" [] op = "NE" -> "!=" [] op = "GT" -> ">"
      [] op = "GTE" -> ">=" [] op = "LT" -> "<" [] op = "LTE" -> "<="
      [] op = "IN" -> "in" [] op = "NOT_IN" -> "not_in"
      [] op = "LIKE" -> "like" [] op = "ILIKE" -> "ilike"

\* A registry in which GTE also lists 'gt', an alias of GT
aliases_overlapping(op) ==
    CASE op = "EQ" -> <<"=", "eq">>
      [] op = "NE" -> <<"!=", "ne", "not_eq">>
      [] op = "GT" -> <<">", "gt">>
      [] op = "GTE" -> <<">=", "gte", "ge", "gt">>
      [] op = "LT" -> <<"<", "lt">>
      [] op = "LTE" -> <<"<=", "lte", "le">>
      [] op = "IN" -> <<"in", "IN">>
      [] op = "NOT_IN" -> <<"not_in", "NOT_IN">>
      [] op = "LIKE" -> <<"like", "LIKE">>
      [] op = "ILIKE" -> <<"ilike", "ILIKE">>

\* op.aliases
aliases(op) ==
    CASE op = "EQ" -> <<"=", "eq">>
      [] op = "NE" -> <<"!=", "ne", "not_eq">>
      [] op = "GT" -> <<">", "gt">>
      [] op = "GTE" -> <<">=", "gte", "ge">>
      [] op = "LT" -> <<"<", "lt">>
      [] op = "LTE" -> <<"<=", "lte", "le">>
      [] op = "IN" -> <<"in", "IN">>
      [] op = "NOT_IN" -> <<"not_in", "NOT_IN">>
      [] op = "LIKE" -> <<"like", "LIKE">>
      [] op = "ILIKE" -> <<"ilike", "ILIKE">>

Range(f) == {f[i] : i \in DOMAIN f}

RECURSIVE ExtendAll(_)
\* aliases.extend(op.aliases) for the members from position i on
ExtendAll(i) ==
    IF i > Len(Op) THEN <<>> ELSE aliases(Op[i]) \o ExtendAll(i + 1)

\* Op.get_all_aliases
get_all_aliases == ExtendAll(1)

\* Op.from_string: the first member, in iteration order, that lists op_str
from_string(op_str) ==
    Let({i \in 1..Len(Op) : op_str \in Range(aliases(Op[i]))}, LAMBDA hits :
        IF hits # {}
        THEN [k |-> "op", v |-> Op[CHOOSE i \in hits : \A j \in hits : i <= j]]
        ELSE [k |-> "raised", exc |-> "ValueError", what |-> "unsupported_operator",
              op_str |-> op_str, listed |-> get_all_aliases])

\* The predicate an operator's lambda builds from a column and a value.
\* c.in_(v if isinstance(v, list) else [v]); c.like(f'%{v}%')
apply(op, column, value) ==
    CASE op \in {"EQ", "NE", "GT", "GTE", "LT", "LTE"} ->
            [k |-> "cmp", op |-> symbol(op), col |-> column, val |-> value]
      [] op \in {"IN", "NOT_IN"} ->
            [k |-> "in", neg |-> (op = "NOT_IN"), col |-> column,
             vals |-> IF value.k = "list" THEN value.v ELSE <<value>>]
      [] op \in {"LIKE", "ILIKE"} ->
            [k |-> "like", ci |-> (op = "ILIKE"), col |-> column,
             pat |-> "%" \o py_str(value) \o "%"]

(***************************************************************************)
(* Filter grammar: pydantic models of models/filter/models.py               *)
(***************************************************************************)
\* ValidationError carrying one entry per violated rule
ValidationError(errors) ==
    [k |-> "raised", exc |-> "ValidationError", errors |-> errors]

\* Field names that occur.  Of these, the blank ones and the one with a
\* space fail Filter.validate_name: `not v.strip()`, or
\* v.replace('_', '').replace('-', '').isalnum() is false.
NamePool == {"id", "name", "age", "secret", "hidden", "ghost", "", " ", "a b"}
IsBlank(s) == s \in {"", " "}
IsIdentLike(s) == s \notin {"", " ", "a b"}

RECURSIVE Flatten(_)
\* concatenation of a sequence of sequences
Flatten(ss) == IF Len(ss) = 0 THEN <<>> ELSE ss[1] \o Flatten(Tail(ss))

\* Filter(name=..., op=..., value=..., type=...): op is a member (k = "op")
\* or a text resolved by validate_op; type is None or a text.
Filter(name, op, value, type) ==
    Let(IF op.k = "str" THEN from_string(op.v) ELSE op, LAMBDA rop :
        LET errors ==
                (IF name = "" \/ IsBlank(name) \/ ~IsIdentLike(name)
                 THEN <<"name">> ELSE <<>>)
                \o (IF IsRaised(rop) THEN <<"op">> ELSE <<>>)
                \o (IF IsNone(value) THEN <<"value">> ELSE <<>>)
                \o (IF ~IsNone(type) /\ type.v \notin TypeHints
                    THEN <<"type">> ELSE <<>>)
        IN IF errors # <<>> THEN ValidationError(errors)
           ELSE [k |-> "Filter", name |-> name, op |-> rop.v, value |-> value,
                 type |-> type])

\* FilterGroup(op=..., filters=[...]) from raw filters [name, op, value, type].
\* op is Literal['and', 'or']: the literal check runs before validate_group_op
\* (an after-validator), so only 'and' and 'or' pass.
FilterGroup(op, filters) ==
    Let([i \in 1..Len(filters) |->
            Filter(filters[i].name, filters[i].op, filters[i].value,
                   filters[i].type)], LAMBDA built :
        LET errors ==
                (IF op \notin {"and", "or"} THEN <<"op">> ELSE <<>>)
                \o (IF Len(filters) < 1 THEN <<"filters">> ELSE <<>>)
                \o Flatten([i \in 1..Len(filters) |->
                              IF IsRaised(built[i]) THEN built[i].errors ELSE <<>>])
        IN IF errors # <<>> THEN ValidationError(errors)
           ELSE [k |-> "FilterGroup", op |-> op, filters |-> built])

\* FilterQuery / FilterParams validate_order_by: v.strip() must be empty or
\* identifier-like; order_by is None or a text
order_by_errors(order_by) ==
    IF ~IsNone(order_by) /\ ~IsBlank(order_by.v) /\ ~IsIdentLike(order_by.v)
    THEN <<"order_by">> ELSE <<>>

\* v.strip() for the texts that occur
strip(s) == IF IsBlank(s) THEN "" ELSE s

stripped(order_by) == IF IsNone(order_by) THEN None ELSE StrV(strip(order_by.v))

\* FilterQuery(offset=..., limit=..., order_by=..., desc=..., groups=[...])
\* from raw groups [op, filters]
FilterQuery(offset, limit, order_by, desc, groups) ==
    Let([i \in 1..Len(groups) |->
            FilterGroup(groups[i].op, groups[i].filters)], LAMBDA built :
        LET errors ==
                (IF offset < 0 THEN <<"offset">> ELSE <<>>)
                \o (IF limit < 1 \/ limit > 1000 THEN <<"limit">> ELSE <<>>)
                \o order_by_errors(order_by)
                \o Flatten([i \in 1..Len(groups) |->
                              IF IsRaised(built[i]) THEN built[i].errors ELSE <<>>])
        IN IF errors # <<>> THEN ValidationError(errors)
           ELSE [k |-> "FilterQuery", offset |-> offset, limit |-> limit,
                 order_by |-> stripped(order_by), desc |-> desc, groups |-> built])

\* d.get(key, default) / d[key] for a JSON object held as a record
Get(d, key, default) == IF key \in DOMAIN d THEN d[key] ELSE default

\* A JSON object with ordered keys (the simple filters mapping) is a
\* sequence of <<key, value>> pairs
DictV(pairs) == [k |-> "dict", v |-> pairs]

\* First violated rule of the list form in normalize_and_validate_filters,
\* from group i on: <<>> when no rule is violated
RECURSIVE group_shape_error(_, _)
group_shape_error(groups, i) ==
    IF i > Len(groups) THEN <<>>
    ELSE LET g == groups[i]
             bad_item(it) == "name" \notin DOMAIN it \/ "value" \notin DOMAIN it
         IN IF "operator" \notin DOMAIN g THEN <<"operator">>
            ELSE IF "items" \notin DOMAIN g THEN <<"items">>
            ELSE IF Len(g.items) = 0 THEN <<"items_empty">>
            ELSE IF \E j \in 1..Len(g.items) : bad_item(g.items[j])
            THEN LET j == CHOOSE n \in 1..Len(g.items) :
                            /\ bad_item(g.items[n])
                            /\ \A m \in 1..(n - 1) : ~bad_item(g.items[m])
                 IN IF "name" \notin DOMAIN g.items[j]
                    THEN <<"item_name">> ELSE <<"item_value">>
            ELSE group_shape_error(groups, i + 1)

\* First violated rule of the mapping form: a blank key, then a None value,
\* pair by pair
RECURSIVE mapping_error(_, _)
mapping_error(pairs, i) ==
    IF i > Len(pairs) THEN <<>>
    ELSE IF IsBlank(pairs[i][1]) THEN <<"key">>
    ELSE IF IsNone(pairs[i][2]) THEN <<"value">>
    ELSE mapping_error(pairs, i + 1)

\* FilterParams.normalize_and_validate_filters (model_validator, mode after)
normalize_and_validate_filters(self) ==
    IF self.filters.k = "list"
    THEN Let(group_shape_error(self.filters.v, 1), LAMBDA e :
            LET adv == IF IsNone(self.advanced_filters)
                          \/ Len(self.advanced_filters.v) = 0
                       THEN <<>> ELSE self.advanced_filters.v
            IN IF e # <<>> THEN ValidationError(e)
               ELSE [self EXCEPT !.advanced_filters = ListV(adv \o self.filters.v),
                                 !.filters = DictV(<<>>)])
    ELSE IF self.filters.k = "dict"
    THEN Let(mapping_error(self.filters.v, 1), LAMBDA e :
            IF e # <<>> THEN ValidationError(e) ELSE self)
    ELSE self

\* FilterParams(**json_data): field validation, then the model validator
FilterParams(json_data) ==
    LET offset == Get(json_data, "offset", 0)
        limit == Get(json_data, "limit", 50)
        order_by == Get(json_data, "order_by", None)
        asc == Get(json_data, "asc", 1)
        errors ==
            (IF offset < 0 THEN <<"offset">> ELSE <<>>)
            \o (IF limit < 1 \/ limit > 1000 THEN <<"limit">> ELSE <<>>)
            \o order_by_errors(order_by)
            \o (IF asc \notin {0, 1} THEN <<"asc">> ELSE <<>>)
    IN IF errors # <<>> THEN ValidationError(errors)
       ELSE normalize_and_validate_filters(
              [k |-> "FilterParams", offset |-> offset, limit |-> limit,
               order_by |-> stripped(order_by), asc |-> asc,
               filters |-> Get(json_data, "filters", DictV(<<>>)),
               advanced_filters |-> Get(json_data, "advanced_filters", ListV(<<>>))])

\* FilterParams.is_desc
is_desc(self) == self.asc = 0

\* bool(x) of a list, mapping or None held in a FilterParams field
Truthy(x) == ~IsNone(x) /\ Len(x.v) > 0

\* FilterParams.has_only_pagination_and_sorting
has_only_pagination_and_sorting(self) ==
    LET has_simple == self.filters.k = "dict" /\ Truthy(self.filters)
        has_advanced == Truthy(self.advanced_filters)
    IN ~(has_simple \/ has_advanced)

\* FilterConfig.__init__: an empty or absent allow-list is stored as None
FilterConfig(allowed_fields, default_limit, max_limit, default_order_by) ==
    [allowed_fields |-> IF ~IsNone(allowed_fields) /\ Len(allowed_fields.v) > 0
                        THEN [k |-> "set", v |-> Range(allowed_fields.v)]
                        ELSE None,
     default_limit |-> default_limit,
     max_limit |-> max_limit,
     default_order_by |-> default_order_by]

(***************************************************************************)
(* The bound entity User{id, name, age} and the storage collaborator        *)
(***************************************************************************)
\* Attributes of the model class that are columns: getattr on any other
\* name raises AttributeError
ModelAttrs == {"id", "name", "age"}

\* AsyncQueryFilterEngine._get_model_fields, computed once in __init__
_model_fields == ModelAttrs

\* select(self._model): no WHERE, no ORDER BY, no OFFSET/LIMIT
select_model == [k |-> "select", where |-> <<>>, order |-> <<>>, page |-> None]

ColKind(col) == IF col = "name" THEN "str" ELSE "int"

\* Collation order of the texts that occur
StrOrder == <<"", "1", "20", "30", "5", "True", "[5]", "a", "b", "c", "true">>
StrRank(s) == CHOOSE i \in 1..Len(StrOrder) : StrOrder[i] = s

\* row.col < value, row.col = value, as the store compares them
LessThan(col, x, y) == IF ColKind(col) = "str" THEN StrRank(x) < StrRank(y) ELSE x < y

\* Whether the store accepts the parameter for a comparison with the column
Comparable(col, val) ==
    IF ColKind(col) = "str" THEN val.k = "str" ELSE val.k \in {"int", "float"}

\* A predicate the store rejects when the statement is executed
IllTyped(p) ==
    CASE p.k = "cmp" -> ~Comparable(p.col, p.val)
      [] p.k = "in" -> \E i \in 1..Len(p.vals) : ~Comparable(p.col, p.vals[i])
      [] p.k = "like" -> ColKind(p.col) # "str"

\* Texts a LIKE pattern is cut into
Fragments == {"", "a", "b", "c", "5", "A"}

\* text LIKE '%mid%' (ILIKE when ci: both sides compared in lower case)
LikeMatch(text, pat, ci) ==
    \E pre, mid, post \in Fragments :
        /\ pat = "%" \o mid \o "%"
        /\ IF ci THEN pre \o lower(mid) \o post = lower(text)
           ELSE pre \o mid \o post = text

\* Truth of a well-typed predicate on a row
EvalPred(row, p) ==
    CASE p.k = "cmp" ->
            LET x == row[p.col]
                y == p.val.v
            IN (CASE p.op = "=" -> x = y
                  [] p.op = "!=" -> x # y
                  [] p.op = ">" -> LessThan(p.col, y, x)
                  [] p.op = ">=" -> ~LessThan(p.col, x, y)
                  [] p.op = "<" -> LessThan(p.col, x, y)
                  [] p.op = "<=" -> ~LessThan(p.col, y, x))
      [] p.k = "in" ->
            (\E i \in 1..Len(p.vals) : row[p.col] = p.vals[i].v) # p.neg
      [] p.k = "like" -> LikeMatch(row[p.col], p.pat, p.ci)

\* and_(*conds) / or_(*conds) on a row
EvalClause(row, c) ==
    IF c.bop = "and" THEN \A i \in 1..Len(c.conds) : EvalPred(row, c.conds[i])
    ELSE \E i \in 1..Len(c.conds) : EvalPred(row, c.conds[i])

\* successive .where() calls are conjoined
Selected(rows, where) ==
    {r \in rows : \A i \in 1..Len(where) : EvalClause(r, where[i])}

WhereIllTyped(where) ==
    \E i \in 1..Len(where) : \E j \in 1..Len(where[i].conds) :
        IllTyped(where[i].conds[j])

Max(a, b) == IF a < b THEN b ELSE a
Min(a, b) == IF a < b THEN a ELSE b

\* session.exec(select(func.count()).select_from(q.subquery())).one():
\* the number of rows of the subquery, whatever it carries
ExecCount(cq, rows) ==
    IF WhereIllTyped(cq.where) THEN Raised("DBAPIError")
    ELSE Let(Cardinality(Selected(rows, cq.where)), LAMBDA n :
            IF IsNone(cq.page) THEN IntV(n)
            ELSE IF cq.page.offset < 0 \/ cq.page.limit < 0 THEN Raised("DBAPIError")
            ELSE IntV(Min(Max(0, n - cq.page.offset), cq.page.limit)))

\* All orders in which a set of rows can be listed
Listings(S) ==
    {f \in [1..Cardinality(S) -> S] : \A i, j \in DOMAIN f : i # j => f[i] # f[j]}

\* ORDER BY col [DESC]: adjacent rows respect the ordering term, rows with
\* equal keys in any order; no term, any order
Ordered(f, order) ==
    \/ order = <<>>
    \/ \A i \in 1..(Len(f) - 1) :
          IF order[1].desc
          THEN ~LessThan(order[1].col, f[i][order[1].col], f[i + 1][order[1].col])
          ELSE ~LessThan(order[1].col, f[i + 1][order[1].col], f[i][order[1].col])

\* OFFSET o LIMIT l of a listing
Page(f, page) ==
    IF IsNone(page) THEN f
    ELSE SubSeq(f, page.offset + 1, Min(Len(f), page.offset + page.limit))

\* session.exec(query).all(): the results the store may return
ExecAll(q, rows) ==
    IF \/ WhereIllTyped(q.where)
       \/ (~IsNone(q.page) /\ (q.page.offset < 0 \/ q.page.limit < 0))
    THEN {Raised("DBAPIError")}
    ELSE {ListV(Page(f, q.page)) :
            f \in {g \in Listings(Selected(rows, q.where)) : Ordered(g, q.order)}}

(***************************************************************************)
(* AsyncQueryFilterEngine                                                   *)
(***************************************************************************)
\* _validate_field: a configured (non-empty) allow-list decides, else the
\* introspected field set
_validate_field(conf, field_name) ==
    IF ~IsNone(conf.allowed_fields) /\ conf.allowed_fields.v # {}
    THEN field_name \in conf.allowed_fields.v
    ELSE field_name \in _model_fields

\* A _build_condition that does not ask _validate_field
_build_condition_unchecked(conf, filter_item) ==
    IF filter_item.name \notin ModelAttrs THEN None
    ELSE Let(_cast_value(filter_item.value, filter_item.type), LAMBDA value :
            IF IsRaised(value) THEN value
            ELSE apply(filter_item.op, filter_item.name, value))

\* _build_condition: None for an unauthorized field and when
\* getattr(self._model, name) raises AttributeError; an exception that
\* escapes _cast_value propagates
_build_condition(conf, filter_item) ==
    IF ~_validate_field(conf, filter_item.name) THEN None
    ELSE IF filter_item.name \notin ModelAttrs THEN None
    ELSE Let(_cast_value(filter_item.value, filter_item.type), LAMBDA value :
            IF IsRaised(value) THEN value
            ELSE apply(filter_item.op, filter_item.name, value))

\* The first exception of a sequence of results
FirstRaised(fs) == fs[CHOOSE i \in 1..Len(fs) : IsRaised(fs[i])
                                               /\ \A j \in 1..(i - 1) : ~IsRaised(fs[j])]

\* The conditions of one group that are not None, in order; an exception
\* raised on the way is left among them
RECURSIVE group_conditions(_, _, _)
group_conditions(conf, filters, i) ==
    IF i > Len(filters) THEN <<>>
    ELSE Let(_build_condition(conf, filters[i]), LAMBDA condition :
            IF IsNone(condition) THEN <<>> ELSE <<condition>>)
         \o group_conditions(conf, filters, i + 1)

\* A compiler that conjoins the conditions of every group
group_condition_all(op, conditions) == [bop |-> "and", conds |-> conditions]

\* and_(*conditions) if group.op == 'and' else or_(*conditions)
group_condition(op, conditions) ==
    [bop |-> IF op = "and" THEN "and" ELSE "or", conds |-> conditions]

\* _apply_filter_groups: one .where() per group that kept a condition; the
\* exception of a condition ends the loop
RECURSIVE _apply_filter_groups(_, _, _)
_apply_filter_groups(conf, q, groups) ==
    IF IsRaised(q) \/ Len(groups) = 0 THEN q
    ELSE _apply_filter_groups(conf,
            Let(group_conditions(conf, groups[1].filters, 1), LAMBDA conditions :
                IF \E i \in 1..Len(conditions) : IsRaised(conditions[i])
                THEN FirstRaised(conditions)
                ELSE IF Len(conditions) > 0
                THEN [q EXCEPT !.where =
                         Append(@, group_condition(groups[1].op, conditions))]
                ELSE q),
            Tail(groups))

\* A compiler that sorts ascending whatever direction is asked for
_apply_sorting_ascending(conf, q, order_by, desc) ==
    IF ~IsNone(order_by) /\ order_by.v # "" /\ _validate_field(conf, order_by.v)
    THEN IF order_by.v \notin ModelAttrs THEN Raised("AttributeError")
         ELSE [q EXCEPT !.order = Append(@, [col |-> order_by.v, desc |-> FALSE])]
    ELSE IF /\ ~IsNone(conf.default_order_by)
            /\ conf.default_order_by.v # ""
            /\ _validate_field(conf, conf.default_order_by.v)
    THEN IF conf.default_order_by.v \notin ModelAttrs THEN Raised("AttributeError")
         ELSE [q EXCEPT !.order =
                  Append(@, [col |-> conf.default_order_by.v, desc |-> FALSE])]
    ELSE q

\* _apply_sorting; getattr on a name that is no attribute raises
_apply_sorting(conf, q, order_by, desc) ==
    IF ~IsNone(order_by) /\ order_by.v # "" /\ _validate_field(conf, order_by.v)
    THEN IF order_by.v \notin ModelAttrs THEN Raised("AttributeError")
         ELSE [q EXCEPT !.order = Append(@, [col |-> order_by.v, desc |-> desc])]
    ELSE IF /\ ~IsNone(conf.default_order_by)
            /\ conf.default_order_by.v # ""
            /\ _validate_field(conf, conf.default_order_by.v)
    THEN IF conf.default_order_by.v \notin ModelAttrs THEN Raised("AttributeError")
         ELSE [q EXCEPT !.order =
                  Append(@, [col |-> conf.default_order_by.v, desc |-> FALSE])]
    ELSE q

\* A compiler that passes the limit on without clamping it
_apply_pagination_unclamped(conf, q, offset, limit) ==
    [q EXCEPT !.page = [k |-> "page", offset |-> offset, limit |-> limit]]

\* _apply_pagination: limit = min(limit, max_limit); .offset().limit()
_apply_pagination(conf, q, offset, limit) ==
    [q EXCEPT !.page = [k |-> "page", offset |-> offset,
                        limit |-> Min(limit, conf.max_limit)]]

\* select(func.count()).select_from(query.subquery())
count_of(q) == [k |-> "count", where |-> q.where, order |-> q.order, page |-> q.page]

\* A compiler that derives the count query after ordering and pagination
filter_by_query_begin_count_last(conf, filter_query) ==
    Let(_apply_filter_groups(conf, select_model, filter_query.groups), LAMBDA q1 :
    IF IsRaised(q1) THEN q1 ELSE
    Let(_apply_sorting(conf, q1, filter_query.order_by, filter_query.desc), LAMBDA q2 :
        IF IsRaised(q2) THEN q2
        ELSE Let(_apply_pagination(conf, q2, filter_query.offset,
                                   filter_query.limit), LAMBDA q3 :
                [k |-> "compiled", count_query |-> count_of(q3), query |-> q3])))

\* filter_by_query up to its first await: the compiled count and data
\* queries, or the exception raised on the way
filter_by_query_begin(conf, filter_query) ==
    Let(_apply_filter_groups(conf, select_model, filter_query.groups), LAMBDA q1 :
    IF IsRaised(q1) THEN q1 ELSE
    Let(count_of(q1), LAMBDA cq :
    Let(_apply_sorting(conf, q1, filter_query.order_by, filter_query.desc), LAMBDA q2 :
        IF IsRaised(q2) THEN q2
        ELSE [k |-> "compiled", count_query |-> cq,
              query |-> _apply_pagination(conf, q2, filter_query.offset,
                                          filter_query.limit)])))

\* ValueError of filter_by_params naming the unauthorized fields
InvalidFields(fields) ==
    [k |-> "raised", exc |-> "ValueError", what |-> "invalid_fields",
     fields |-> fields]

\* A loop over the simple filters that leaves unauthorized keys out
RECURSIVE simple_loop_lenient(_, _, _, _)
simple_loop_lenient(conf, pairs, i, acc) ==
    IF i > Len(pairs) THEN [k |-> "ok", simple_filters |-> acc[1],
                            invalid_fields |-> acc[2]]
    ELSE IF _validate_field(conf, pairs[i][1])
    THEN Let(Filter(pairs[i][1], [k |-> "op", v |-> "EQ"], pairs[i][2], None),
             LAMBDA f :
                IF IsRaised(f) THEN f
                ELSE simple_loop_lenient(conf, pairs, i + 1,
                                         <<Append(acc[1], f), acc[2]>>))
    ELSE simple_loop_lenient(conf, pairs, i + 1, acc)

\* The loop over filter_params.filters.items() from pair i on: acc holds
\* <<simple_filters, invalid_fields>>; a Filter that fails validation raises
RECURSIVE simple_loop(_, _, _, _)
simple_loop(conf, pairs, i, acc) ==
    IF i > Len(pairs) THEN [k |-> "ok", simple_filters |-> acc[1],
                            invalid_fields |-> acc[2]]
    ELSE IF _validate_field(conf, pairs[i][1])
    THEN Let(Filter(pairs[i][1], [k |-> "op", v |-> "EQ"], pairs[i][2], None),
             LAMBDA f :
                IF IsRaised(f) THEN f
                ELSE simple_loop(conf, pairs, i + 1, <<Append(acc[1], f), acc[2]>>))
    ELSE simple_loop(conf, pairs, i + 1, <<acc[1], Append(acc[2], pairs[i][1])>>)

\* The loop over advanced_filter['items'] from item i on
RECURSIVE items_loop(_, _, _, _)
items_loop(conf, its, i, acc) ==
    IF i > Len(its) THEN [k |-> "ok", filters |-> acc[1], invalid_fields |-> acc[2]]
    ELSE LET item == its[i]
         IN IF "name" \in DOMAIN item /\ "value" \in DOMAIN item
            THEN IF ~_validate_field(conf, item.name)
                 THEN items_loop(conf, its, i + 1,
                                 <<acc[1], Append(acc[2], item.name)>>)
                 ELSE Let(from_string(Get(item, "operator", "=")), LAMBDA filter_op :
                         IF IsRaised(filter_op) THEN filter_op
                         ELSE Let(Filter(item.name, filter_op, item.value,
                                         Get(item, "data_type", None)), LAMBDA f :
                                 IF IsRaised(f) THEN f
                                 ELSE items_loop(conf, its, i + 1,
                                                 <<Append(acc[1], f), acc[2]>>)))
            ELSE items_loop(conf, its, i + 1, acc)

\* 'and' if advanced_filter['operator'].lower() in ['and', 'all'] else 'or'
group_op_of(operator) == IF lower(operator) \in {"and", "all"} THEN "and" ELSE "or"

\* The loop over filter_params.advanced_filters from group i on: the
\* advanced_groups built, or the first exception raised
RECURSIVE advanced_loop(_, _, _, _)
advanced_loop(conf, groups, i, advanced_groups) ==
    IF i > Len(groups) THEN [k |-> "ok", advanced_groups |-> advanced_groups]
    ELSE LET advanced_filter == groups[i]
         IN IF "operator" \in DOMAIN advanced_filter /\ "items" \in DOMAIN advanced_filter
            THEN Let(items_loop(conf, advanced_filter.items, 1, <<<<>>, <<>>>>),
                     LAMBDA r :
                        IF IsRaised(r) THEN r
                        ELSE IF Len(r.invalid_fields) > 0
                        THEN InvalidFields(r.invalid_fields)
                        ELSE IF Len(r.filters) > 0
                        THEN advanced_loop(conf, groups, i + 1,
                                Append(advanced_groups,
                                       [k |-> "FilterGroup",
                                        op |-> group_op_of(advanced_filter.operator),
                                        filters |-> r.filters]))
                        ELSE advanced_loop(conf, groups, i + 1, advanced_groups))
            ELSE advanced_loop(conf, groups, i + 1, advanced_groups)

\* filter_by_params up to its first await: the predicate-bearing query and
\* the count query derived from it, or the exception raised
filter_by_params_begin(conf, filter_params) ==
    Let(IF Truthy(filter_params.filters)
        THEN simple_loop(conf, filter_params.filters.v, 1, <<<<>>, <<>>>>)
        ELSE [k |-> "ok", simple_filters |-> <<>>, invalid_fields |-> <<>>],
        LAMBDA s :
    IF IsRaised(s) THEN s
    ELSE IF Len(s.invalid_fields) > 0 THEN InvalidFields(s.invalid_fields)
    ELSE Let(IF Truthy(filter_params.advanced_filters)
             THEN advanced_loop(conf, filter_params.advanced_filters.v, 1, <<>>)
             ELSE [k |-> "ok", advanced_groups |-> <<>>],
             LAMBDA a :
         IF IsRaised(a) THEN a
         ELSE Let(_apply_filter_groups(conf,
                     IF Len(s.simple_filters) > 0
                     THEN _apply_filter_groups(conf, select_model,
                             <<[k |-> "FilterGroup", op |-> "and",
                                filters |-> s.simple_filters]>>)
                     ELSE select_model,
                     a.advanced_groups),
                  LAMBDA q2 :
                     IF IsRaised(q2) THEN q2
                     ELSE [k |-> "compiled", count_query |-> count_of(q2),
                           query |-> q2])))

\* A filter_by_params that paginates without sorting
filter_by_params_resume_unsorted(conf, filter_params, q) ==
    _apply_pagination(conf, q, filter_params.offset, filter_params.limit)

\* filter_by_params between its two awaits: sorting and pagination
filter_by_params_resume(conf, filter_params, q) ==
    Let(_apply_sorting(conf, q, filter_params.order_by, is_desc(filter_params)),
        LAMBDA q2 :
            IF IsRaised(q2) THEN q2
            ELSE _apply_pagination(conf, q2, filter_params.offset,
                                   filter_params.limit))

\* url_params is a sequence of <<key, text>> pairs
HasKey(pairs, key) == \E i \in 1..Len(pairs) : pairs[i][1] = key
ValueOf(pairs, key) == pairs[CHOOSE i \in 1..Len(pairs) : pairs[i][1] = key][2]

\* filter_query.<field> = v on a FilterQuery: the error of the assignment
\* when the model validates assignments, none when it does not
assign_errors(validate_assignment, field, v) ==
    IF ~validate_assignment THEN <<>>
    ELSE IF field = "offset" /\ v < 0 THEN <<"offset">>
    ELSE IF field = "limit" /\ (v < 1 \/ v > 1000) THEN <<"limit">>
    ELSE IF field = "order_by" THEN order_by_errors(v)
    ELSE <<>>

\* The list comprehension of filter_by_url / quick_filter: a Filter for each
\* authorized key outside exclude_params, from pair i on
RECURSIVE equality_filters(_, _, _, _)
equality_filters(conf, pairs, exclude_params, i) ==
    IF i > Len(pairs) THEN <<>>
    ELSE IF pairs[i][1] \notin exclude_params /\ _validate_field(conf, pairs[i][1])
    THEN <<Filter(pairs[i][1], [k |-> "op", v |-> "EQ"], pairs[i][2], None)>>
         \o equality_filters(conf, pairs, exclude_params, i + 1)
    ELSE equality_filters(conf, pairs, exclude_params, i + 1)

\* filter_by_url up to `return await self.filter_by_query(...)`: the
\* FilterQuery it built, or the exception raised on the way
filter_by_url_query(conf, url_params, validate_assignment) ==
    Let(IF HasKey(url_params, "offset")
        THEN py_int(ValueOf(url_params, "offset")) ELSE IntV(0), LAMBDA offset :
    Let(IF HasKey(url_params, "limit")
        THEN py_int(ValueOf(url_params, "limit")) ELSE IntV(50), LAMBDA limit :
    Let(equality_filters(conf, url_params,
                         {"offset", "limit", "order_by", "asc"}, 1),
        LAMBDA simple_filters :
    LET order_by == IF HasKey(url_params, "order_by")
                    THEN ValueOf(url_params, "order_by") ELSE None
        desc == HasKey(url_params, "asc") /\ ValueOf(url_params, "asc") = StrV("0")
    IN IF IsRaised(offset) THEN offset
       ELSE IF HasKey(url_params, "offset")
               /\ assign_errors(validate_assignment, "offset", offset.v) # <<>>
       THEN ValidationError(<<"offset">>)
       ELSE IF IsRaised(limit) THEN limit
       ELSE IF HasKey(url_params, "limit")
               /\ assign_errors(validate_assignment, "limit", limit.v) # <<>>
       THEN ValidationError(<<"limit">>)
       ELSE IF HasKey(url_params, "order_by")
               /\ assign_errors(validate_assignment, "order_by", order_by) # <<>>
       THEN ValidationError(<<"order_by">>)
       ELSE IF \E i \in 1..Len(simple_filters) : IsRaised(simple_filters[i])
       THEN FirstRaised(simple_filters)
       ELSE [k |-> "FilterQuery", offset |-> offset.v, limit |-> limit.v,
             order_by |-> IF validate_assignment THEN stripped(order_by)
                          ELSE order_by,
             desc |-> desc,
             groups |-> IF Len(simple_filters) > 0
                        THEN <<[k |-> "FilterGroup", op |-> "and",
                                filters |-> simple_filters]>>
                        ELSE <<>>])))

\* quick_filter up to `return await self.filter_by_query(...)`: filters is
\* the keyword arguments as <<key, value>> pairs
quick_filter_query(conf, filters) ==
    Let(equality_filters(conf, filters, {}, 1), LAMBDA filter_items :
        IF \E i \in 1..Len(filter_items) : IsRaised(filter_items[i])
        THEN FirstRaised(filter_items)
        ELSE [k |-> "FilterQuery", offset |-> 0, limit |-> 50, order_by |-> None,
              desc |-> FALSE,
              groups |-> IF Len(filter_items) = 0 THEN <<>>
                         ELSE <<[k |-> "FilterGroup", op |-> "and",
                                 filters |-> filter_items]>>])

\* A paginate that takes page * size for the offset
paginate_query_from_page(conf, page, size, order_by, desc) ==
    LET sz == IF IsNone(size) \/ size.v = 0 THEN conf.default_limit ELSE size.v
        offset == page * sz
    IN FilterQuery(offset, sz, order_by, desc, <<>>)

\* paginate up to `return await self.filter_by_query(...)`; size is an
\* integer or None
paginate_query(conf, page, size, order_by, desc) ==
    LET sz == IF IsNone(size) \/ size.v = 0 THEN conf.default_limit ELSE size.v
        offset == (page - 1) * sz
    IN FilterQuery(offset, sz, order_by, desc, <<>>)

(***************************************************************************)
(* Inputs                                                                   *)
(***************************************************************************)
MaxRows == 3        \* rows in the store at the start
MaxWrites == 1      \* writes that may race with one request

Row(id, name, age) == [id |-> id, name |-> name, age |-> age]
RowPool == {Row(1, "a", 20), Row(2, "b", 30), Row(3, "c", 40), Row(4, "5", 30)}

Stores == {S \in SUBSET RowPool : Cardinality(S) <= MaxRows}

\* The FilterConfig values the engine is constructed with
ConfigPool ==
    { FilterConfig(None, 50, 1000, None),
      FilterConfig(ListV(<<"id", "name">>), 1, 2, StrV("id")),
      FilterConfig(ListV(<<"age", "ghost">>), 50, 1000, StrV("ghost")),
      FilterConfig(ListV(<<>>), 2, 1000, StrV("age")),
      FilterConfig(None, 50, 1000, StrV("secret")) }

\* A raw filter: the keyword arguments of Filter(...)
RF(name, op, value, type) ==
    [name |-> name, op |-> StrV(op), value |-> value, type |-> type]
\* A raw group: the keyword arguments of FilterGroup(...)
RG(op, filters) == [op |-> op, filters |-> filters]

QueryFilters ==
    { RF("age", ">=", IntV(30), None),
      RF("name", "eq", StrV("a"), None),
      RF("secret", "=", IntV(1), None) }

MoreQueryFilters ==
    { RF("id", "in", ListV(<<IntV(1), IntV(3)>>), None),
      RF("age", "lt", StrV("40"), StrV("int")),
      RF("name", "ilike", StrV("A"), None),
      RF("ghost", "=", IntV(1), None),
      RF("age", "=", StrV("x"), None),
      RF("age", "=", InfV, StrV("int")),
      RF("name", "not_in", StrV("b"), None) }

QueryGroups ==
    {RG(op, <<f>>) : op \in {"and", "or"}, f \in QueryFilters \cup MoreQueryFilters}
    \cup {RG(op, <<f, g>>) : op \in {"and", "or"}, f \in QueryFilters, g \in QueryFilters}

PairedGroups ==
    { RG("and", <<RF("age", ">=", IntV(30), None)>>),
      RG("or", <<RF("name", "eq", StrV("a"), None), RF("age", ">=", IntV(30), None)>>),
      RG("or", <<RF("secret", "=", IntV(1), None)>>) }

QueryGroupLists ==
    {<<>>} \cup {<<g>> : g \in QueryGroups}
    \cup {<<g, h>> : g \in PairedGroups, h \in PairedGroups}

\* offset, limit, order_by, desc
PG(offset, limit, order_by, desc) ==
    [offset |-> offset, limit |-> limit, order_by |-> order_by, desc |-> desc]

PagePool ==
    { PG(0, 50, None, FALSE),
      PG(0, 1000, StrV("age"), TRUE),
      PG(1, 1, StrV("age"), FALSE),
      PG(0, 2, StrV("name"), FALSE),
      PG(0, 50, StrV("secret"), TRUE),
      PG(1, 50, StrV("ghost"), FALSE) }

\* Arguments a caller builds a FilterQuery from
QueryArgs ==
    {[page |-> pg, groups |-> gs] : pg \in PagePool, gs \in QueryGroupLists}
    \cup {[page |-> pg, groups |-> <<>>] :
            pg \in {PG(0, 5000, None, FALSE), PG(0, 0, None, FALSE),
                    PG(0 - 1, 50, None, FALSE), PG(0, 50, StrV("a b"), FALSE)}}
    \cup {[page |-> PG(0, 50, None, FALSE), groups |-> <<g>>] :
            g \in {RG("AND", <<RF("age", ">=", IntV(30), None)>>),
                   RG("and", <<>>),
                   RG("and", <<RF("age", "=", None, None)>>),
                   RG("and", <<RF("age", "~", IntV(1), None)>>)}}

\* JSON objects of the flat shape
JI(name, value) == [name |-> name, value |-> value]
JG(operator, item_list) == [operator |-> operator, items |-> item_list]

SimpleMaps ==
    { DictV(<< <<"age", IntV(30)>> >>),
      DictV(<< <<"secret", IntV(1)>> >>),
      DictV(<< <<"secret", IntV(1)>>, <<"hidden", IntV(2)>> >>),
      DictV(<< <<"age", IntV(30)>>, <<"secret", IntV(1)>> >>),
      DictV(<< <<"name", StrV("a")>>, <<"age", IntV(30)>> >>),
      DictV(<< <<"ghost", IntV(1)>> >>),
      DictV(<< <<"age", None>> >>),
      DictV(<< <<"", IntV(1)>> >>) }

G_age == JG("and", << JI("age", IntV(30)) @@ [operator |-> ">="] >>)
G_or == JG("or", << JI("name", StrV("a")), JI("age", IntV(40)) >>)
G_secret == JG("AND", << JI("secret", IntV(1)) >>)
G_hidden == JG("any", << JI("hidden", IntV(1)), JI("age", IntV(20)) >>)
G_xor == JG("xor", << JI("name", StrV("a")), JI("age", IntV(30)) >>)
G_all == JG("All", << JI("id", IntV(1)), JI("age", IntV(20)) >>)

GroupDicts ==
    { G_age, G_or, G_secret, G_hidden, G_xor, G_all,
      JG("and", << JI("age", IntV(1)) @@ [operator |-> "~"] >>),
      [items |-> << JI("age", IntV(30)) >>],
      [operator |-> "and"],
      JG("and", <<>>),
      JG("and", << [name |-> "age"] >>),
      JG("and", << JI("age", None) >>),
      JG("or", << JI("age", StrV("40")) @@ [operator |-> "lt", data_type |-> StrV("int")] >>),
      JG("and", << JI("secret", IntV(1)), JI("name", StrV("a")),
                   JI("hidden", IntV(1)) >>) }

FilterParts ==
    { <<>>, [filters |-> None] }
    \cup {[filters |-> m] : m \in SimpleMaps}
    \cup {[filters |-> ListV(<<g>>)] : g \in GroupDicts}
    \cup {[advanced_filters |-> ListV(<<g>>)] : g \in GroupDicts}
    \cup {[filters |-> ListV(gs)] :
            gs \in {<<G_age, G_or>>, <<G_or, G_secret>>, <<G_secret, G_hidden>>,
                    <<G_xor, G_age>>}}
    \cup { [filters |-> DictV(<< <<"secret", IntV(1)>> >>),
            advanced_filters |-> ListV(<<G_hidden>>)],
           [filters |-> DictV(<< <<"age", IntV(30)>> >>),
            advanced_filters |-> ListV(<<G_secret, G_hidden>>)],
           [filters |-> DictV(<< <<"age", IntV(30)>> >>),
            advanced_filters |-> ListV(<<G_or>>)],
           [filters |-> ListV(<<G_age>>), advanced_filters |-> ListV(<<G_or>>)] }

PagingParts ==
    { <<>>, [limit |-> 1, offset |-> 1, order_by |-> StrV("age"), asc |-> 0] }

\* JSON bodies of the flat shape
ParamsJson ==
    {f @@ pg : f \in FilterParts, pg \in PagingParts}
    \cup { [limit |-> 5000], [offset |-> 0 - 1], [asc |-> 2],
           [order_by |-> StrV("a b")], [order_by |-> StrV("ghost")] }

\* JSON bodies of the FilterQuery shape, as the service receives them
GroupsJson ==
    { [groups |-> <<>>],
      [groups |-> <<RG("and", <<RF("age", ">=", IntV(30), None)>>)>>,
       order_by |-> StrV("age"), desc |-> TRUE],
      [groups |-> <<RG("or", <<RF("secret", "=", IntV(1), None)>>)>>, limit |-> 1],
      [groups |-> <<RG("any", <<RF("age", ">=", IntV(30), None)>>)>>] }

\* Requests that differ in their pagination, for every entry point that
\* takes a limit or a page size
PagingQueryArgs ==
    {[page |-> pg, groups |-> gs] :
        pg \in {PG(0, 5000, None, FALSE), PG(0, 50, None, FALSE),
                PG(0, 1000, StrV("age"), TRUE), PG(1, 2, StrV("name"), FALSE),
                PG(0, 1, None, FALSE)},
        gs \in {<<>>, <<RG("and", <<RF("name", "ne", StrV("a"), None)>>)>>}}

\* Requests with conditions on authorized, unauthorized and unresolvable
\* fields, and with null values
LenientGroupLists ==
    { <<RG("and", <<RF("age", ">=", IntV(30), None), RF("secret", "=", IntV(1), None)>>)>>,
      <<RG("or", <<RF("secret", "=", IntV(1), None)>>)>>,
      <<RG("or", <<RF("name", "eq", StrV("a"), None), RF("ghost", "=", IntV(1), None)>>),
        RG("and", <<RF("age", ">=", IntV(30), None)>>)>>,
      <<RG("and", <<RF("age", "=", StrV("x"), None)>>)>>,
      <<RG("and", <<RF("age", "=", None, None)>>)>>,
      <<RG("and", <<RF("secret", "=", None, None)>>)>> }

LenientQueryArgs ==
    {[page |-> PG(0, 50, None, FALSE), groups |-> gs] : gs \in LenientGroupLists}

\* Keyword arguments of quick_filter: <<key, value>> pairs
QuickArgs ==
    { <<>>,
      << <<"age", IntV(30)>> >>,
      << <<"name", StrV("a")>>, <<"secret", IntV(1)>> >>,
      << <<"age", IntV(30)>>, <<"id", IntV(2)>> >>,
      << <<"ghost", IntV(1)>> >>,
      << <<"secret", None>> >>,
      << <<"name", None>> >> }

PagingJson ==
    { <<>>, [limit |-> 5000], [limit |-> 1000],
      [filters |-> DictV(<< <<"age", None>> >>)],
      [filters |-> ListV(<<JG("and", << JI("age", None) >>)>>)],
      [advanced_filters |-> ListV(<<JG("and", << JI("secret", None) >>)>>)],
      [limit |-> 5000, filters |-> DictV(<< <<"age", IntV(30)>> >>)],
      [limit |-> 50, filters |-> DictV(<< <<"age", IntV(30)>> >>)],
      [limit |-> 1, offset |-> 1, filters |-> DictV(<< <<"name", StrV("a")>> >>)],
      [limit |-> 3, filters |-> ListV(<<G_age>>)] }

\* URL parameters: <<key, text>> pairs
UrlParams ==
    { <<>>,
      << <<"limit", StrV("5000")>> >>,
      << <<"limit", StrV("50")>> >>,
      << <<"limit", StrV("2")>>, <<"offset", StrV("1")>> >>,
      << <<"limit", StrV("abc")>> >>,
      << <<"limit", StrV("0")>> >>,
      << <<"offset", StrV("-1")>> >>,
      << <<"name", StrV("a")>>, <<"limit", StrV("5000")>> >>,
      << <<"secret", StrV("1")>>, <<"limit", StrV("1000")>> >>,
      << <<"order_by", StrV("age")>>, <<"asc", StrV("0")>>, <<"limit", StrV("1")>> >>,
      << <<"order_by", StrV("a b")>> >>,
      << <<"age", StrV("30")>> >>,
      << <<"age", IntV(30)>>, <<"id", IntV(2)>> >>,
      << <<"name", StrV("a")>>, <<"secret", StrV("1")>> >>,
      << <<"ghost", StrV("1")>>, <<"name", StrV("b")>>, <<"asc", StrV("1")>> >>,
      << <<"secret", None>> >>,
      << <<"name", None>> >> }

PaginateArgs ==
    {[page |-> page, size |-> size, order_by |-> order_by, desc |-> desc] :
        page \in {0, 1, 2},
        size \in {None, IntV(0), IntV(1), IntV(2), IntV(5000)},
        order_by \in {None, StrV("age")},
        desc \in BOOLEAN}

\* Calls of the pure functions
Call(fn, args) == [k |-> "call", fn |-> fn] @@ args

OpTexts ==
    Range(get_all_aliases)
    \cup {"", "EQ", "Eq", "==", "<>", "Like", "Not_In", "not in", "equals",
          "=<", "=>", "g", "gt ", "contains", "between", "is", "not"}

CastValues ==
    { IntV(5), StrV("5"), StrV("a"), IntV(30), StrV("30"), BoolV(TRUE),
      StrV("True"), StrV("2024-05-01"), StrV("2024-05-01T10:00:00Z"),
      FloatV(5), ListV(<<IntV(5)>>), ListV(<<StrV("5")>>),
      ListV(<<StrV("a"), StrV("b")>>), InfV, StrV("Yes"), StrV("ON"),
      StrV("TRUE"), StrV("False"), StrV("1"), BoolV(FALSE), IntV(1), IntV(0) }

\* The allowed_fields argument FilterConfig is constructed with
AllowLists ==
    { None, ListV(<<>>), ListV(<<"id", "name">>), ListV(<<"age", "ghost">>),
      ListV(<<"secret">>) }

PureCalls ==
    {Call("from_string", [op_str |-> t]) : t \in OpTexts}
    \cup {Call("_validate_field", [allowed_fields |-> al, field_name |-> n]) :
            al \in AllowLists,
            n \in {"id", "name", "age", "secret", "hidden", "ghost"}}
    \cup {Call("_cast_value", [value |-> v, type_hint |-> h]) :
            v \in CastValues \cup {None},
            h \in {None, StrV(""), StrV("uuid")}
                  \cup {StrV(t) : t \in TypeHints}}
    \cup {Call("_build_condition", [filter |-> RF(n, o, v, h)]) :
            n \in {"name", "age", "secret"},
            o \in {"in", "not_in", "=", "like"},
            v \in {IntV(5), StrV("5"), StrV("a"), IntV(30), BoolV(TRUE),
                   StrV("2024-05-01")},
            h \in {None} \cup {StrV(t) : t \in TypeHints}}

(***************************************************************************)
(* Requests                                                                 *)
(***************************************************************************)
Entry(via, fn) == [via |-> via, fn |-> fn]

\* A request enters: r is what the entry point produced up to its first
\* await, c the statements already executed on its session
Begin(e, a, f, r, c) ==
    /\ pc = "idle"
    /\ entry' = e
    /\ arg' = a
    /\ fq' = f
    /\ calls' = c
    /\ writes' = 0
    /\ total' = None
    /\ items' = None
    /\ IF IsRaised(r)
       THEN pc' = "raised" /\ err' = r /\ count_query' = None /\ query' = None
       ELSE /\ pc' = "count" /\ err' = None
            /\ count_query' = r.count_query /\ query' = r.query
    /\ UNCHANGED <<consumer, message, inj, store, config, tasks, pure_in, pure_out>>

\* A request that goes through filter_by_query: q is the FilterQuery or the
\* exception its construction raised, fn the entry point once it is entered,
\* fn_failed the one recorded when q is an exception
EnterQuery(via, fn, fn_failed, a, q, c) ==
    IF IsRaised(q) THEN Begin(Entry(via, fn_failed), a, None, q, c)
    ELSE Begin(Entry(via, fn), a, q, filter_by_query_begin(config, q), c)

\* A caller builds a FilterQuery and awaits engine.filter_by_query(q, session)
CallFilterByQuery(a) ==
    /\ pc = "idle"
    /\ EnterQuery("engine", "filter_by_query", "none", a,
                  FilterQuery(a.page.offset, a.page.limit, a.page.order_by,
                              a.page.desc, a.groups), <<>>)

\* A request that takes a failed count for a total of 0 and goes on
CountReturned_failure_as_zero(r, q) ==
    /\ total' = IF IsRaised(r) THEN IntV(0) ELSE r
    /\ IF IsRaised(q)
       THEN pc' = "raised" /\ err' = q /\ UNCHANGED query
       ELSE pc' = "fetch" /\ err' = None /\ query' = q

\* What follows the count: r is what session.exec(count_query) gave, q the
\* data query the second await will execute
CountReturned(r, q) ==
    IF IsRaised(r)
    THEN pc' = "raised" /\ err' = r /\ UNCHANGED <<consumer, message, inj, total, query>>
    ELSE /\ total' = r
         /\ IF IsRaised(q)
            THEN pc' = "raised" /\ err' = q /\ UNCHANGED query
            ELSE pc' = "fetch" /\ err' = None /\ query' = q

\* total_row = await session.exec(count_query); total = total_row.one();
\* filter_by_params then sorts and paginates before its second await
ExecCountStep ==
    /\ pc = "count"
    /\ calls' = Append(calls, "count")
    /\ CountReturned(ExecCount(count_query, store),
                     IF entry.fn = "filter_by_params"
                     THEN filter_by_params_resume(config, fq, query) ELSE query)
    /\ UNCHANGED <<consumer, message, inj, store, config, tasks, entry, arg, fq, count_query, items, writes,
                   pure_in, pure_out>>

\* items_result = await session.exec(query); items = items_result.all();
\* return FilterResult(items=items, total=total)
ExecFetchStep ==
    /\ pc = "fetch"
    /\ calls' = Append(calls, "fetch")
    /\ \E r \in ExecAll(query, store) :
          IF IsRaised(r)
          THEN pc' = "raised" /\ err' = r /\ UNCHANGED items
          ELSE pc' = "done" /\ items' = r /\ UNCHANGED err
    /\ UNCHANGED <<consumer, message, inj, store, config, tasks, entry, arg, fq, count_query, query, total,
                   writes, pure_in, pure_out>>

\* Another session inserts or deletes a row between the two reads
Write ==
    /\ pc = "fetch"
    /\ writes < MaxWrites
    /\ writes' = writes + 1
    /\ \E r \in RowPool :
          \/ r \in store /\ store' = store \ {r}
          \/ r \notin store /\ Cardinality(store) < MaxRows /\ store' = store \cup {r}
    /\ UNCHANGED <<consumer, message, inj, config, tasks, pc, entry, arg, fq, count_query, query, total,
                   items, err, calls, pure_in, pure_out>>

\* A request that goes through filter_by_params: params is the FilterParams
\* or the exception its construction raised
EnterParams(a, params) ==
    IF IsRaised(params)
    THEN Begin(Entry("engine", "none"), a, None, params, <<>>)
    ELSE Begin(Entry("engine", "filter_by_params"), a, params,
               filter_by_params_begin(config, params), <<>>)

\* A caller builds FilterParams(**json) and awaits
\* engine.filter_by_params(params, session)
CallFilterByParams(json) ==
    /\ pc = "idle"
    /\ EnterParams(json, FilterParams(json))

\* EXC(ErrorCode.ValidationError, details=...) raised from a caught
\* ValidationError or ValueError
EXC(e) == [k |-> "raised", exc |-> "EXC", code |-> "ValidationError", cause |-> e]

\* except ValidationError / except ValueError: re-raised as EXC
reraise(r) ==
    IF IsRaised(r) /\ r.exc \in {"ValidationError", "ValueError"} THEN EXC(r) ELSE r

\* The engine method the service calls, the validated object it hands over
\* and what the method produced up to its first await
route(fn, obj, r) == [fn |-> fn, obj |-> obj, r |-> reraise(r)]

\* engine.filter_by_query(q, session) from the service; q may be the
\* exception the construction of the FilterQuery raised
route_query(conf, fn, q) ==
    IF IsRaised(q) THEN route("none", None, q)
    ELSE route(fn, q, filter_by_query_begin(conf, q))

\* The FilterParams branch of filter_with_json
route_params(conf, params) ==
    IF IsRaised(params) THEN route("none", None, params)
    ELSE IF has_only_pagination_and_sorting(params)
    THEN route_query(conf, "filter_by_query",
                     FilterQuery(params.offset, params.limit, params.order_by,
                                 is_desc(params), <<>>))
    ELSE route("filter_by_params", params, filter_by_params_begin(conf, params))

\* What FilterService.filter_with_json hands to the engine
filter_with_json_route(conf, json_data) ==
    IF DOMAIN json_data = {}
    THEN Let(paginate_query(conf, 1, IntV(50), None, FALSE), LAMBDA q :
            IF IsRaised(q) THEN route("paginate", None, q)
            ELSE route("paginate", q, filter_by_query_begin(conf, q)))
    ELSE IF "groups" \in DOMAIN json_data
    THEN route_query(conf, "filter_by_query",
                     FilterQuery(Get(json_data, "offset", 0),
                                 Get(json_data, "limit", 50),
                                 Get(json_data, "order_by", None),
                                 Get(json_data, "desc", FALSE),
                                 json_data.groups))
    ELSE route_params(conf, FilterParams(json_data))

\* FilterService.filter_with_json(model, json_data, session=...): with no
\* session given, acquire_session opens one and, when the configuration names
\* a user, executes SET ROLE on it before the body runs
BeginRoute(json_data, t, c) == Begin(Entry("service", t.fn), json_data, t.obj, t.r, c)

CallFilterWithJson(json_data) ==
    /\ pc = "idle"
    /\ \E c \in {<<>>, <<"set_role">>} :
          BeginRoute(json_data, filter_with_json_route(config, json_data), c)

\* engine.filter_by_url(url_params, session)
CallFilterByUrl(url_params) ==
    /\ pc = "idle"
    /\ \E validate_assignment \in BOOLEAN :
          EnterQuery("engine", "filter_by_url", "filter_by_url",
                     [url_params |-> url_params,
                      validate_assignment |-> validate_assignment],
                     filter_by_url_query(config, url_params, validate_assignment),
                     <<>>)

\* engine.paginate(session, page, size, order_by, desc)
CallPaginate(a) ==
    /\ pc = "idle"
    /\ EnterQuery("engine", "paginate", "paginate", a,
                  paginate_query(config, a.page, a.size, a.order_by, a.desc), <<>>)

\* engine.quick_filter(session, **filters)
CallQuickFilter(filters) ==
    /\ pc = "idle"
    /\ EnterQuery("engine", "quick_filter", "quick_filter", [kwargs |-> filters],
                  quick_filter_query(config, filters), <<>>)

\* Callers that share one engine instance, each with a session of its own
Callers == {"c1", "c2"}

\* The locals of a coroutine that is not in a request
IdleTask ==
    [pc |-> "idle", fn |-> "none", arg |-> None, fq |-> None, count_query |-> None,
     query |-> None, total |-> None, items |-> None, err |-> None, calls |-> <<>>]

\* Requests the callers make
TaskInputs ==
    { Call("filter_by_query",
           [arg |-> [page |-> PG(0, 1, StrV("age"), TRUE),
                     groups |-> <<RG("and", <<RF("age", ">=", IntV(30), None)>>)>>]]),
      Call("filter_by_query",
           [arg |-> [page |-> PG(0, 50, None, FALSE),
                     groups |-> <<RG("or", <<RF("name", "eq", StrV("a"), None),
                                             RF("secret", "=", IntV(1), None)>>)>>]]),
      Call("filter_by_params",
           [arg |-> [limit |-> 3, order_by |-> StrV("age"), asc |-> 0,
                     filters |-> DictV(<< <<"name", StrV("a")>> >>)]]),
      Call("filter_by_params", [arg |-> [filters |-> ListV(<<G_or>>)]]),
      Call("filter_by_params",
           [arg |-> [filters |-> DictV(<< <<"secret", IntV(1)>> >>)]]),
      Call("filter_by_url",
           [arg |-> [url_params |-> << <<"name", StrV("a")>>, <<"limit", StrV("2")>> >>,
                     validate_assignment |-> FALSE]]),
      Call("quick_filter", [arg |-> [kwargs |-> << <<"age", IntV(30)>> >>]]),
      Call("paginate",
           [arg |-> [page |-> 2, size |-> IntV(1), order_by |-> None, desc |-> FALSE]]) }

\* The object an entry point validates or builds from its raw input before
\* it compiles: a FilterQuery, a FilterParams, or the exception raised
Validated(conf, fn, a) ==
    CASE fn = "filter_by_query" ->
            FilterQuery(a.page.offset, a.page.limit, a.page.order_by, a.page.desc,
                        a.groups)
      [] fn = "filter_by_params" -> FilterParams(a)
      [] fn = "filter_by_url" ->
            filter_by_url_query(conf, a.url_params, a.validate_assignment)
      [] fn = "quick_filter" -> quick_filter_query(conf, a.kwargs)
      [] fn = "paginate" -> paginate_query(conf, a.page, a.size, a.order_by, a.desc)

\* What the entry point has compiled when it reaches its first await
Compiled(conf, fn, q) ==
    IF IsRaised(q) THEN q
    ELSE IF fn = "filter_by_params" THEN filter_by_params_begin(conf, q)
    ELSE filter_by_query_begin(conf, q)

\* The locals of the coroutine at its first await, or when it raised
Entered(fn, a, q, r) ==
    [pc |-> IF IsRaised(r) THEN "raised" ELSE "count",
     fn |-> fn, arg |-> a,
     fq |-> IF IsRaised(q) THEN None ELSE q,
     count_query |-> IF IsRaised(r) THEN None ELSE r.count_query,
     query |-> IF IsRaised(r) THEN None ELSE r.query,
     total |-> None, items |-> None,
     err |-> IF IsRaised(r) THEN r ELSE None,
     calls |-> <<>>]

Started(conf, fn, a) ==
    Let(Validated(conf, fn, a), LAMBDA q : Entered(fn, a, q, Compiled(conf, fn, q)))

\* The data query the second await executes
DataQuery(conf, t) ==
    IF t.fn = "filter_by_params" THEN filter_by_params_resume(conf, t.fq, t.query)
    ELSE t.query

\* The locals after `await session.exec(count_query)` gave r, q being the
\* data query
AfterCount(t, r, q) ==
    IF IsRaised(r)
    THEN [t EXCEPT !.pc = "raised", !.err = r, !.calls = Append(@, "count")]
    ELSE IF IsRaised(q)
    THEN [t EXCEPT !.pc = "raised", !.err = q, !.total = r,
                   !.calls = Append(@, "count")]
    ELSE [t EXCEPT !.pc = "fetch", !.total = r, !.query = q,
                   !.calls = Append(@, "count")]

\* The locals after `await session.exec(query)` gave r
AfterFetch(t, r) ==
    IF IsRaised(r)
    THEN [t EXCEPT !.pc = "raised", !.err = r, !.calls = Append(@, "fetch")]
    ELSE [t EXCEPT !.pc = "done", !.items = r, !.calls = Append(@, "fetch")]

\* An engine whose _apply_pagination keeps the clamped limit in its config
_config_after_clamped(conf, t) ==
    IF t.pc = "raised" \/ IsNone(t.fq) THEN conf
    ELSE [conf EXCEPT !.max_limit = Min(t.fq.limit, conf.max_limit)]

\* self._config once a method of the engine has run up to an await: no
\* method assigns to self._config, self._model or self._model_fields
_config_after(conf, t) == conf

\* Caller c awaits an entry point of the shared engine
TaskCall(c) ==
    /\ tasks[c].pc = "idle"
    /\ \E i \in TaskInputs :
          /\ tasks' = [tasks EXCEPT ![c] = Started(config, i.fn, i.arg)]
          /\ config' = _config_after(config, Started(config, i.fn, i.arg))
    /\ UNCHANGED <<consumer, message, inj, store, pc, entry, arg, fq, count_query, query, total, items,
                   err, calls, writes, pure_in, pure_out>>

\* The count of caller c's request is executed on its session
TaskCount(c) ==
    /\ tasks[c].pc = "count"
    /\ tasks' = [tasks EXCEPT ![c] =
                    AfterCount(@, ExecCount(@.count_query, store), DataQuery(config, @))]
    /\ config' = _config_after(config, tasks[c])
    /\ UNCHANGED <<consumer, message, inj, store, pc, entry, arg, fq, count_query, query, total, items,
                   err, calls, writes, pure_in, pure_out>>

\* The page fetch of caller c's request is executed on its session
TaskFetch(c) ==
    /\ tasks[c].pc = "fetch"
    /\ \E r \in ExecAll(tasks[c].query, store) :
          tasks' = [tasks EXCEPT ![c] = AfterFetch(@, r)]
    /\ UNCHANGED <<consumer, message, inj, store, config, pc, entry, arg, fq, count_query, query, total,
                   items, err, calls, writes, pure_in, pure_out>>

\* Caller c takes the result or the exception
TaskReturn(c) ==
    /\ tasks[c].pc \in {"done", "raised"}
    /\ tasks' = [tasks EXCEPT ![c] = IdleTask]
    /\ UNCHANGED <<consumer, message, inj, store, config, pc, entry, arg, fq, count_query, query, total,
                   items, err, calls, writes, pure_in, pure_out>>

\* A pure function is applied to its arguments
Returns(v) == [k |-> "returned", v |-> v]

ApplyFromString ==
    /\ pure_in.k = "call" /\ pure_in.fn = "from_string" /\ IsNone(pure_out)
    /\ pure_out' = Returns(from_string(pure_in.op_str))
    /\ UNCHANGED <<consumer, message, inj, store, config, tasks, pc, entry, arg, fq, count_query, query, total,
                   items, err, calls, writes, pure_in>>

\* The outcome of a call: the value returned or the exception raised
Outcome(r) == IF IsRaised(r) THEN r ELSE Returns(r)

ApplyCastValue ==
    /\ pure_in.k = "call" /\ pure_in.fn = "_cast_value" /\ IsNone(pure_out)
    /\ pure_out' = Outcome(_cast_value(pure_in.value, pure_in.type_hint))
    /\ UNCHANGED <<consumer, message, inj, store, config, tasks, pc, entry, arg, fq, count_query, query, total,
                   items, err, calls, writes, pure_in>>

\* AsyncQueryFilterEngine(model, FilterConfig(allowed_fields=...)) and then
\* engine._validate_field(field_name)
ApplyValidateField ==
    /\ pure_in.k = "call" /\ pure_in.fn = "_validate_field" /\ IsNone(pure_out)
    /\ pure_out' = Returns(BoolV(_validate_field(
                        FilterConfig(pure_in.allowed_fields, 50, 1000, None),
                        pure_in.field_name)))
    /\ UNCHANGED <<consumer, message, inj, store, config, tasks, pc, entry, arg, fq, count_query, query, total,
                   items, err, calls, writes, pure_in>>

\* Filter(**filter) and then engine._build_condition(filter_item)
ApplyBuildCondition ==
    /\ pure_in.k = "call" /\ pure_in.fn = "_build_condition" /\ IsNone(pure_out)
    /\ pure_out' = Let(Filter(pure_in.filter.name, pure_in.filter.op,
                              pure_in.filter.value, pure_in.filter.type),
                       LAMBDA filter_item :
                          IF IsRaised(filter_item) THEN filter_item
                          ELSE Outcome(_build_condition(config, filter_item)))
    /\ UNCHANGED <<consumer, message, inj, store, config, tasks, pc, entry, arg, fq, count_query, query, total,
                   items, err, calls, writes, pure_in>>

\* The caller takes the result or the exception; the next request may start
Return ==
    /\ pc \in {"done", "raised"}
    /\ pc' = "idle"
    /\ entry' = None /\ arg' = None /\ fq' = None
    /\ count_query' = None /\ query' = None
    /\ total' = None /\ items' = None /\ err' = None
    /\ calls' = <<>> /\ writes' = 0
    /\ UNCHANGED <<consumer, message, inj, store, config, tasks, pure_in, pure_out>>

Init ==
    /\ store \in Stores
    /\ config \in ConfigPool
    /\ pc = "idle"
    /\ entry = None /\ arg = None /\ fq = None
    /\ count_query = None /\ query = None
    /\ total = None /\ items = None /\ err = None
    /\ calls = <<>> /\ writes = 0
    /\ pure_in = None /\ pure_out = None
    /\ tasks = [c \in Callers |-> IdleTask]
    /\ consumer = None /\ message = None /\ inj = None

Next ==
    \/ pc = "idle" /\ \E a \in QueryArgs : CallFilterByQuery(a)
    \/ ExecCountStep
    \/ ExecFetchStep
    \/ Write
    \/ Return

Spec == Init /\ [][Next]_vars

\* The flat-JSON entry points: the engine's filter_by_params and the
\* service's filter_with_json
NextParams ==
    \/ pc = "idle" /\ \E j \in ParamsJson : CallFilterByParams(j)
    \/ pc = "idle" /\ \E j \in ParamsJson \cup GroupsJson : CallFilterWithJson(j)
    \/ ExecCountStep
    \/ ExecFetchStep
    \/ Write
    \/ Return

SpecParams == Init /\ [][NextParams]_vars

\* Every entry point of the engine
NextPaging ==
    \/ pc = "idle" /\ \E a \in PagingQueryArgs \cup LenientQueryArgs :
                         CallFilterByQuery(a)
    \/ pc = "idle" /\ \E j \in PagingJson : CallFilterByParams(j)
    \/ pc = "idle" /\ \E u \in UrlParams : CallFilterByUrl(u)
    \/ pc = "idle" /\ \E f \in QuickArgs : CallQuickFilter(f)
    \/ pc = "idle" /\ \E a \in PaginateArgs : CallPaginate(a)
    \/ ExecCountStep
    \/ ExecFetchStep
    \/ Write
    \/ Return

SpecPaging == Init /\ [][NextPaging]_vars

\* Requests of several callers on one engine, interleaved at their awaits
NextTasks ==
    \/ \E c \in Callers : TaskCall(c)
    \/ \E c \in Callers : TaskCount(c)
    \/ \E c \in Callers : TaskFetch(c)
    \/ \E c \in Callers : TaskReturn(c)

SpecTasks == Init /\ [][NextTasks]_vars

\* The pure functions applied to arguments drawn at the start
InitPure ==
    /\ store \in Stores
    /\ config = FilterConfig(None, 50, 1000, None)
    /\ pc = "idle"
    /\ entry = None /\ arg = None /\ fq = None
    /\ count_query = None /\ query = None
    /\ total = None /\ items = None /\ err = None
    /\ calls = <<>> /\ writes = 0
    /\ pure_in \in PureCalls /\ pure_out = None
    /\ tasks = [c \in Callers |-> IdleTask]
    /\ consumer = None /\ message = None /\ inj = None

NextPure ==
    \/ ApplyFromString
    \/ ApplyValidateField
    \/ ApplyCastValue
    \/ ApplyBuildCondition

SpecPure == InitPure /\ [][NextPure]_vars

(***************************************************************************)
(* Properties of filter_by_query                                            *)
(***************************************************************************)
\* A request of filter_by_query whose count has been read from a store that
\* no write has touched since
Counted ==
    /\ pc \in {"fetch", "done"}
    /\ entry.fn = "filter_by_query"
    /\ writes = 0

Returned == pc = "done" /\ writes = 0

\* C1: for fixed store contents, the total of filter_by_query is the total of
\* every query with the same groups and any other offset, limit, order_by and
\* desc: ordering and pagination never reach the count query.
C1_TotalIgnoresPaging ==
    (Counted /\ entry.via = "engine") =>
        \A pg \in PagePool :
            LET other == [fq EXCEPT !.offset = pg.offset, !.limit = pg.limit,
                                    !.order_by = pg.order_by, !.desc = pg.desc]
                r == filter_by_query_begin(config, other)
            IN IsRaised(r) \/ ExecCount(r.count_query, store) = total

\* C1 witness: a page that holds fewer rows than the total it comes with
C1_Witness ==
    /\ Returned /\ entry.fn = "filter_by_query" /\ entry.via = "engine"
    /\ Len(query.where) > 0
    /\ Len(items.v) > 0
    /\ total.v > Len(items.v)

\* Rows the compiled data query keeps
Matching == Selected(store, query.where)

\* The ordering term the engine applies: order_by if authorized, else the
\* configured default if authorized, else none
EffectiveOrder(order_by, desc) ==
    IF ~IsNone(order_by) /\ order_by.v # "" /\ _validate_field(config, order_by.v)
    THEN <<[col |-> order_by.v, desc |-> desc]>>
    ELSE IF /\ ~IsNone(config.default_order_by)
            /\ config.default_order_by.v # ""
            /\ _validate_field(config, config.default_order_by.v)
    THEN <<[col |-> config.default_order_by.v, desc |-> FALSE]>>
    ELSE <<>>

\* key of row a comes strictly before that of row b under the ordering term
Before(o, a, b) ==
    IF o.desc THEN LessThan(o.col, b[o.col], a[o.col])
    ELSE LessThan(o.col, a[o.col], b[o.col])

\* its is the slice [offset, offset + limit) of the rows M listed by the
\* ordering terms o (rows with equal keys in any order)
IsPageOf(its, M, o, offset, limit) ==
    /\ Len(its) = Min(Max(0, Cardinality(M) - offset), limit)
    /\ \A i \in 1..Len(its) : its[i] \in M
    /\ \A i, j \in 1..Len(its) : i # j => its[i] # its[j]
    /\ o # <<>> =>
          \A i \in 1..Len(its) :
              /\ Cardinality({r \in M : Before(o[1], r, its[i])}) <= offset + i - 1
              /\ Cardinality({r \in M : ~Before(o[1], its[i], r)}) >= offset + i

\* C2 as stated: total is the number of matching rows and items are those
\* rows sorted by order_by in the requested direction, then sliced
C2_Original ==
    (Returned /\ entry.fn = "filter_by_query" /\ entry.via = "engine") =>
        /\ total.v = Cardinality(Matching)
        /\ IsPageOf(items.v, Matching,
                    IF ~IsNone(fq.order_by) /\ fq.order_by.v \in ModelAttrs
                    THEN <<[col |-> fq.order_by.v, desc |-> fq.desc]>> ELSE <<>>,
                    fq.offset, Min(fq.limit, config.max_limit))

\* C2 (amended): with no write between the two reads, every result of
\* filter_by_query has total = the number of rows satisfying all applied group
\* predicates, and items = those rows ordered by the effective ordering term
\* (order_by in the requested direction if it is authorized, else the
\* authorized default_order_by ascending, else any order), sliced to
\* [offset, offset + min(limit, max_limit)).
C2_PageOfMatches ==
    (Returned /\ entry.fn = "filter_by_query" /\ entry.via = "engine") =>
        /\ total.v = Cardinality(Matching)
        /\ IsPageOf(items.v, Matching, EffectiveOrder(fq.order_by, fq.desc),
                    fq.offset, Min(fq.limit, config.max_limit))

\* C2 witness: the end-to-end example, rows (1,a,20),(2,b,30),(3,c,40) with
\* age >= 30 ordered by age descending
C2_Witness ==
    /\ Returned /\ entry.fn = "filter_by_query" /\ entry.via = "engine"
    /\ store = {Row(1, "a", 20), Row(2, "b", 30), Row(3, "c", 40)}
    /\ Len(query.where) = 1
    /\ query.order = <<[col |-> "age", desc |-> TRUE]>>
    /\ items.v = <<Row(3, "c", 40), Row(2, "b", 30)>>
    /\ total.v = 2

\* Conditions of group g that reach the compiled query
AppliedConds(g) == group_conditions(config, g.filters, 1)

\* A row matches a group: all of its conditions for 'and', one for 'or'
RowMatchesGroup(r, g) ==
    IF g.op = "and"
    THEN \A i \in 1..Len(AppliedConds(g)) : EvalPred(r, AppliedConds(g)[i])
    ELSE \E i \in 1..Len(AppliedConds(g)) : EvalPred(r, AppliedConds(g)[i])

\* The groups that contribute a predicate, in declared order
RECURSIVE Contributing(_)
Contributing(gs) ==
    IF Len(gs) = 0 THEN <<>>
    ELSE (IF Len(AppliedConds(gs[1])) > 0 THEN <<gs[1]>> ELSE <<>>)
         \o Contributing(Tail(gs))

\* C3: the rows a compiled query keeps are exactly the rows that match every
\* group, an 'and' group by all of its conditions and an 'or' group by at
\* least one; the groups are conjoined in declared order whatever their own
\* operator.
C3_GroupsConjoined ==
    (Returned /\ entry.fn = "filter_by_query" /\ entry.via = "engine") =>
        LET gs == Contributing(fq.groups)
            M == {r \in store : \A i \in 1..Len(gs) : RowMatchesGroup(r, gs[i])}
        IN /\ total.v = Cardinality(M)
           /\ \A i \in 1..Len(items.v) : items.v[i] \in M
           /\ Len(query.where) = Len(gs)
           /\ \A i \in 1..Len(gs) :
                 /\ query.where[i].bop = gs[i].op
                 /\ query.where[i].conds = AppliedConds(gs[i])

\* C3 witness: two contributing groups, one an 'or' of two conditions that
\* hold of different rows, keeping some rows and dropping others
C3_Witness ==
    /\ Returned /\ entry.fn = "filter_by_query" /\ entry.via = "engine"
    /\ Len(query.where) = 2
    /\ \E i \in 1..2 :
          /\ query.where[i].bop = "or"
          /\ Len(query.where[i].conds) = 2
          /\ \E r \in store : EvalPred(r, query.where[i].conds[1])
                              /\ ~EvalPred(r, query.where[i].conds[2])
    /\ total.v > 0
    /\ total.v < Cardinality(store)

(***************************************************************************)
(* Properties of filter_by_params and filter_with_json                      *)
(***************************************************************************)
\* A request that reached engine.filter_by_params
ParamsRequest == pc # "idle" /\ entry.fn = "filter_by_params"

\* The exception the caller sees, with the service's EXC wrapper taken off
Cause(e) == IF e.exc = "EXC" THEN e.cause ELSE e

IsInvalidFields(e) ==
    e.exc = "ValueError" /\ "what" \in DOMAIN e /\ e.what = "invalid_fields"

\* Keys of the simple filters that are not authorized
UnauthorizedSimple ==
    IF fq.filters.k = "dict"
    THEN {fq.filters.v[i][1] : i \in {j \in 1..Len(fq.filters.v) :
                                        ~_validate_field(config, fq.filters.v[j][1])}}
    ELSE {}

\* Names of the advanced filter items that are not authorized
UnauthorizedAdvanced ==
    IF Truthy(fq.advanced_filters)
    THEN LET gs == fq.advanced_filters.v
         IN UNION {IF "operator" \in DOMAIN gs[i] /\ "items" \in DOMAIN gs[i]
                   THEN {gs[i].items[j].name :
                            j \in {n \in 1..Len(gs[i].items) :
                                     /\ "name" \in DOMAIN gs[i].items[n]
                                     /\ "value" \in DOMAIN gs[i].items[n]
                                     /\ ~_validate_field(config, gs[i].items[n].name)}}
                   ELSE {} : i \in 1..Len(gs)}
    ELSE {}

\* C4: filter_by_params given simple filters with an unauthorized field
\* raises the failure naming that field before any query is executed: the
\* engine makes no call on the session, and behind the service the session
\* has seen at most the SET ROLE of its acquisition.
C4_UnauthorizedSimpleRejected ==
    (ParamsRequest /\ UnauthorizedSimple # {}) =>
        /\ pc = "raised"
        /\ IsInvalidFields(Cause(err))
        /\ UnauthorizedSimple \subseteq Range(Cause(err).fields)
        /\ "count" \notin Range(calls) /\ "fetch" \notin Range(calls)
        /\ entry.via = "engine" => calls = <<>>
        /\ entry.via = "service" => (err.exc = "EXC" /\ calls \in {<<>>, <<"set_role">>})

\* C4 witness: {"filters": {"secret": 1}} given to the engine
C4_Witness ==
    /\ pc = "raised" /\ entry = Entry("engine", "filter_by_params")
    /\ arg = [filters |-> DictV(<< <<"secret", IntV(1)>> >>)]
    /\ err = InvalidFields(<<"secret">>)
    /\ calls = <<>>

\* C5 as stated: the failure of filter_by_params names every unauthorized
\* field of the request, those of the simple filters and those of every
\* advanced group
C5_AllOffendersNamed ==
    (ParamsRequest /\ pc = "raised" /\ IsInvalidFields(Cause(err))) =>
        (UnauthorizedSimple \cup UnauthorizedAdvanced) \subseteq Range(Cause(err).fields)

\* C6 as stated: an empty input is answered with offset 0, limit
\* default_limit, no predicates and the full row count
C6_EmptyInputDefaultPage ==
    (pc = "done" /\ writes = 0 /\ DOMAIN arg = {}) =>
        /\ query.page.offset = 0
        /\ query.page.limit = config.default_limit
        /\ query.where = <<>>
        /\ total.v = Cardinality(store)

\* The list-form groups of a JSON body translated one to one into the
\* keyword arguments of FilterGroup
TranslatedGroups(groups, op_of(_)) ==
    [i \in 1..Len(groups) |->
        RG(op_of(groups[i].operator),
           [j \in 1..Len(groups[i].items) |->
               RF(groups[i].items[j].name,
                  Get(groups[i].items[j], "operator", "="),
                  groups[i].items[j].value,
                  Get(groups[i].items[j], "data_type", None))])]

\* The FilterQuery with those groups and the same pagination and ordering
Translated(json, op_of(_)) ==
    FilterQuery(Get(json, "offset", 0), Get(json, "limit", 50),
                Get(json, "order_by", None), Get(json, "asc", 1) = 0,
                TranslatedGroups(json.filters.v, op_of))

\* A finished request of engine.filter_by_params on {"filters": [groups]}
ListFormRequest ==
    /\ pc \in {"done", "raised"} /\ writes = 0
    /\ entry = Entry("engine", "filter_by_params")
    /\ "filters" \in DOMAIN arg /\ arg.filters.k = "list"
    /\ "advanced_filters" \notin DOMAIN arg

\* The outcome in the state is one filter_by_query has for FilterQuery q on
\* the same store; same_error: a failure has to be the same exception
SameAsQuery(q, same_error) ==
    LET r == IF IsRaised(q) THEN q ELSE filter_by_query_begin(config, q)
        t == IF IsRaised(r) THEN r ELSE ExecCount(r.count_query, store)
    IN IF pc = "done"
       THEN /\ ~IsRaised(t)
            /\ t = total
            /\ items \in ExecAll(r.query, store)
       ELSE \/ IsRaised(t) /\ (same_error => t.exc = err.exc)
            \/ ~IsRaised(t) /\ \E x \in ExecAll(r.query, store) :
                                  IsRaised(x) /\ (same_error => x.exc = err.exc)

SameOperator(operator) == operator

Claimants(t) == {op \in OpSet : t \in Range(aliases(op))}

\* C8: the alias sets of distinct operators are disjoint; from_string
\* returns the one operator that claims an alias, and for every other text
\* raises the unsupported-operator error, whose message lists all aliases.
C8_FromStringTotal ==
    /\ \A a, b \in OpSet : a # b => Range(aliases(a)) \cap Range(aliases(b)) = {}
    /\ (pure_in.fn = "from_string" /\ ~IsNone(pure_out)) =>
          LET t == pure_in.op_str
              r == pure_out.v
          IN IF Claimants(t) # {}
             THEN /\ Cardinality(Claimants(t)) = 1
                  /\ r.k = "op" /\ Claimants(t) = {r.v}
             ELSE /\ r.k = "raised" /\ r.exc = "ValueError"
                  /\ r.what = "unsupported_operator"
                  /\ r.op_str = t
                  /\ Range(r.listed) = UNION {Range(aliases(op)) : op \in OpSet}

\* C8 witness: an alias resolved to its operator
C8_Witness ==
    /\ pure_in.fn = "from_string" /\ pure_in.op_str = "le"
    /\ pure_out = Returns([k |-> "op", v |-> "LTE"])

\* C9 as stated: for IN and NOT IN, the condition with scalar value v and the
\* condition with [v] give the same predicate and keep the same rows, for
\* every declared type
C9_ScalarAsSingleton ==
    (/\ pure_in.fn = "_build_condition" /\ pure_out.k = "returned"
     /\ pure_in.filter.op.v \in {"in", "not_in"}
     /\ pure_in.filter.value.k # "list") =>
        LET f == pure_in.filter
            listed == Filter(f.name, f.op, ListV(<<f.value>>), f.type)
            c == _build_condition(config, listed)
        IN /\ c = pure_out.v
           /\ ~IsNone(c) =>
                 /\ IllTyped(c) = IllTyped(pure_out.v)
                 /\ ~IllTyped(c) =>
                       Selected(store, <<group_condition("and", <<c>>)>>)
                       = Selected(store, <<group_condition("and", <<pure_out.v>>)>>)

(***************************************************************************)
(* Properties of pagination                                                 *)
(***************************************************************************)
\* The limit or page size the request asks for
RequestedLimit ==
    IF "size" \in DOMAIN arg
    THEN (IF IsNone(arg.size) \/ arg.size.v = 0 THEN config.default_limit
          ELSE arg.size.v)
    ELSE IF "page" \in DOMAIN arg THEN arg.page.limit
    ELSE IF "url_params" \in DOMAIN arg
    THEN (IF HasKey(arg.url_params, "limit")
             /\ IsIntText(ValueOf(arg.url_params, "limit").v)
          THEN IntOfText(ValueOf(arg.url_params, "limit").v) ELSE 50)
    ELSE Get(arg, "limit", 50)

RejectedForLimit ==
    /\ pc = "raised" /\ err.exc = "ValidationError"
    /\ "limit" \in Range(err.errors)

\* Page and total of a completed request, no write between its reads
PageWithinLimit(bound) ==
    /\ Len(items.v) <= bound
    /\ total.v = Cardinality(Selected(store, query.where))

\* C10 as stated: with max_limit = 1000 a request for limit 5000 is not
\* turned down; it yields at most 1000 items and the full match count
C10_Original ==
    (pc # "idle" /\ RequestedLimit = 5000 /\ config.max_limit = 1000) =>
        /\ ~RejectedForLimit
        /\ (pc = "done" /\ writes = 0) => PageWithinLimit(1000)

\* C10 (amended): a limit above 1000 is rejected with ValidationError when a
\* FilterQuery or FilterParams is built from it, so filter_by_query,
\* filter_by_params and paginate turn limit = 5000 down before any storage
\* call, and filter_by_url does when field assignment is validated; every
\* request that completes yields min(limit, max_limit) items at most, all
\* the matches from offset on if fewer, and the full match count as total.
C10_LimitBounded ==
    /\ (pc # "idle" /\ RequestedLimit > 1000 /\ "url_params" \notin DOMAIN arg) =>
          RejectedForLimit /\ calls = <<>>
    /\ (/\ pc # "idle" /\ RequestedLimit > 1000 /\ "url_params" \in DOMAIN arg
        /\ arg.validate_assignment) =>
          pc = "raised" /\ err.exc = "ValidationError" /\ calls = <<>>
    /\ (pc = "done" /\ writes = 0) =>
          /\ PageWithinLimit(Min(fq.limit, config.max_limit))
          /\ Len(items.v) = Min(Max(0, total.v - fq.offset),
                                Min(fq.limit, config.max_limit))

\* C10 witness: a limit above max_limit cut down to max_limit, the total
\* still counting every match
C10_Witness ==
    /\ pc = "done" /\ writes = 0
    /\ fq.limit > config.max_limit
    /\ Len(items.v) = config.max_limit
    /\ total.v > Len(items.v)

(***************************************************************************)
(* Properties of the lenient entry points                                   *)
(***************************************************************************)
\* A request of filter_by_query, filter_by_url or quick_filter
Lenient == pc # "idle" /\ entry.fn \in {"filter_by_query", "filter_by_url", "quick_filter"}

\* The predicates of the authorized conditions among fs, in order; a field
\* that is authorized but no attribute of the model has no predicate
RECURSIVE AuthorizedPredicates(_)
AuthorizedPredicates(fs) ==
    IF Len(fs) = 0 THEN <<>>
    ELSE (IF _validate_field(config, fs[1].name) /\ fs[1].name \in ModelAttrs
          THEN <<apply(fs[1].op, fs[1].name, _cast_value(fs[1].value, fs[1].type))>>
          ELSE <<>>)
         \o AuthorizedPredicates(Tail(fs))

\* One clause per group that has such a predicate, under the group's operator
RECURSIVE AuthorizedWhere(_)
AuthorizedWhere(groups) ==
    IF Len(groups) = 0 THEN <<>>
    ELSE (IF Len(AuthorizedPredicates(groups[1].filters)) > 0
          THEN <<[bop |-> groups[1].op,
                  conds |-> AuthorizedPredicates(groups[1].filters)]>>
          ELSE <<>>)
         \o AuthorizedWhere(Tail(groups))

\* The filters of fs on authorized fields
RECURSIVE AuthorizedFilters(_)
AuthorizedFilters(fs) ==
    IF Len(fs) = 0 THEN <<>>
    ELSE (IF _validate_field(config, fs[1].name) THEN <<fs[1]>> ELSE <<>>)
         \o AuthorizedFilters(Tail(fs))

\* The groups with their conditions on unauthorized fields taken out
RECURSIVE WithoutUnauthorized(_)
WithoutUnauthorized(groups) ==
    IF Len(groups) = 0 THEN <<>>
    ELSE (IF Len(AuthorizedFilters(groups[1].filters)) > 0
          THEN <<[groups[1] EXCEPT !.filters = AuthorizedFilters(@)]>>
          ELSE <<>>)
         \o WithoutUnauthorized(Tail(groups))

\* The <<key, value>> pairs with the unauthorized keys outside keep taken out
RECURSIVE AuthorizedPairs(_, _)
AuthorizedPairs(pairs, keep) ==
    IF Len(pairs) = 0 THEN <<>>
    ELSE (IF pairs[1][1] \in keep \/ _validate_field(config, pairs[1][1])
          THEN <<pairs[1]>> ELSE <<>>)
         \o AuthorizedPairs(Tail(pairs), keep)

ReservedKeys == {"offset", "limit", "order_by", "asc"}

\* The equality conditions of the authorized keys outside the reserved set
EqualityConditions(pairs) ==
    Let(AuthorizedPairs(pairs, {}), LAMBDA kept :
        SelectSeq([i \in 1..Len(kept) |->
                     [k |-> "Filter", name |-> kept[i][1], op |-> "EQ",
                      value |-> kept[i][2], type |-> None]],
                  LAMBDA f : f.name \notin ReservedKeys))

\* C11: in filter_by_query, filter_by_url and quick_filter a condition on an
\* unauthorized field neither fails the request nor adds a predicate: the
\* request compiles to what it compiles to with those conditions taken out, the
\* count query and the data query carry exactly the predicates of the
\* authorized conditions (an authorized field that is no attribute of the model
\* has none), total and items are computed from these, and the FilterQuery of
\* filter_by_url holds one equality condition per authorized key outside the
\* reserved set.
C11_UnauthorizedDropped ==
    /\ (Lenient /\ ~IsNone(fq)) =>
          /\ filter_by_query_begin(config, [fq EXCEPT !.groups = WithoutUnauthorized(@)])
             = filter_by_query_begin(config, fq)
          /\ (pc = "raised" /\ calls = <<>>) => err = filter_by_query_begin(config, fq)
          /\ (pc # "raised" \/ calls # <<>>) =>
                /\ count_query.where = AuthorizedWhere(fq.groups)
                /\ query.where = AuthorizedWhere(fq.groups)
          /\ (pc \in {"fetch", "done"} /\ writes = 0) =>
                total.v = Cardinality(Selected(store, AuthorizedWhere(fq.groups)))
          /\ (pc = "done" /\ writes = 0) =>
                \A i \in 1..Len(items.v) :
                    items.v[i] \in Selected(store, AuthorizedWhere(fq.groups))
    /\ (Lenient /\ entry.fn = "filter_by_url") =>
          IF IsNone(fq)
          THEN err = filter_by_url_query(config,
                        AuthorizedPairs(arg.url_params, ReservedKeys),
                        arg.validate_assignment)
          ELSE Flatten([i \in 1..Len(fq.groups) |-> fq.groups[i].filters])
               = EqualityConditions(arg.url_params)
    /\ (Lenient /\ entry.fn = "quick_filter") =>
          IF IsNone(fq)
          THEN err = quick_filter_query(config, AuthorizedPairs(arg.kwargs, {}))
          ELSE Flatten([i \in 1..Len(fq.groups) |-> fq.groups[i].filters])
               = [i \in 1..Len(AuthorizedPairs(arg.kwargs, {})) |->
                    [k |-> "Filter", name |-> AuthorizedPairs(arg.kwargs, {})[i][1],
                     op |-> "EQ", value |-> AuthorizedPairs(arg.kwargs, {})[i][2],
                     type |-> None]]

\* C11 witness: filter_by_url with an authorized and an unauthorized key
\* answered from the one predicate of the authorized key
C11_Witness ==
    /\ pc = "done" /\ writes = 0 /\ entry.fn = "filter_by_url"
    /\ HasKey(arg.url_params, "secret") /\ HasKey(arg.url_params, "name")
    /\ ~_validate_field(config, "secret")
    /\ Len(query.where) = 1 /\ Len(query.where[1].conds) = 1
    /\ query.where[1].conds[1].col = "name"
    /\ total.v > 0 /\ total.v < Cardinality(store)

(***************************************************************************)
(* Properties of field authorization                                        *)
(***************************************************************************)
\* C12 as stated: with an allow-list configured, an empty one included, a
\* field is authorized exactly when it is a member of the list; with none
\* configured, exactly when it is among the introspected model fields
C12_AllowListAuthoritative ==
    (pure_in.fn = "_validate_field" /\ ~IsNone(pure_out)) =>
        pure_out.v.v = IF ~IsNone(pure_in.allowed_fields)
                       THEN pure_in.field_name \in Range(pure_in.allowed_fields.v)
                       ELSE pure_in.field_name \in _model_fields

(***************************************************************************)
(* Properties of paginate                                                   *)
(***************************************************************************)
\* The page size paginate works with: size, or default_limit when size is
\* absent or 0
PageSize == IF IsNone(arg.size) \/ arg.size.v = 0 THEN config.default_limit
            ELSE arg.size.v

\* C13: paginate(page, size, order_by, desc) with page >= 1 hands
\* filter_by_query a FilterQuery with no groups, offset = (page - 1) * size and
\* limit = size (default_limit when size is absent or 0), whenever that size is
\* one FilterQuery accepts; its count query and data query carry no predicate,
\* the data query asks for that offset and for min(size, max_limit) rows, and
\* total is the number of rows of the store, whatever the page.
C13_PaginateNoPredicates ==
    (pc # "idle" /\ entry.fn = "paginate" /\ arg.page >= 1) =>
        /\ (PageSize >= 1 /\ PageSize <= 1000) =>
              /\ ~IsNone(fq)
              /\ fq.groups = <<>>
              /\ fq.offset = (arg.page - 1) * PageSize
              /\ fq.limit = PageSize
              /\ fq.order_by = arg.order_by /\ fq.desc = arg.desc
        /\ ~IsNone(count_query) =>
              /\ count_query.where = <<>> /\ query.where = <<>>
              /\ IsNone(count_query.page)
              /\ query.page.offset = (arg.page - 1) * PageSize
              /\ query.page.limit = Min(PageSize, config.max_limit)
        /\ (pc \in {"fetch", "done"} /\ writes = 0) => total.v = Cardinality(store)
        /\ (pc = "done" /\ writes = 0) =>
              Len(items.v) = Min(Max(0, Cardinality(store) - (arg.page - 1) * PageSize),
                                 Min(PageSize, config.max_limit))

\* C13 witness: the second page of size 2 of a store of three rows
C13_Witness ==
    /\ pc = "done" /\ writes = 0 /\ entry.fn = "paginate"
    /\ arg.page = 2 /\ arg.size = IntV(2)
    /\ query.page.offset = 2 /\ query.page.limit = 2
    /\ Cardinality(store) = 3
    /\ total.v = 3 /\ Len(items.v) = 1

(***************************************************************************)
(* Properties of input validation                                           *)
(***************************************************************************)
\* The spellings of a group operator the grammar accepts
GroupOperators == {"and", "AND", "all", "or", "OR", "any"}

\* A group of the flat shape that violates a rule of the grouped shape
MalformedGroup(g) ==
    \/ "operator" \notin DOMAIN g
    \/ "items" \notin DOMAIN g
    \/ Len(g.items) = 0
    \/ \E j \in 1..Len(g.items) :
          "name" \notin DOMAIN g.items[j] \/ "value" \notin DOMAIN g.items[j]
    \/ g.operator \notin GroupOperators

\* The groups a JSON body of the flat shape carries, in the list form of
\* filters and in advanced_filters
GroupsOf(json) ==
    (IF "filters" \in DOMAIN json /\ json.filters.k = "list"
     THEN json.filters.v ELSE <<>>)
    \o (IF "advanced_filters" \in DOMAIN json /\ ~IsNone(json.advanced_filters)
        THEN json.advanced_filters.v ELSE <<>>)

\* A request made with a JSON body of the flat shape
FlatRequest ==
    /\ pc # "idle"
    /\ entry.fn \in {"none", "filter_by_params", "filter_by_query"}
    /\ "page" \notin DOMAIN arg /\ "groups" \notin DOMAIN arg

\* The request failed before any query was executed
Rejected ==
    /\ pc = "raised"
    /\ err.exc \in {"ValidationError", "ValueError", "EXC"}
    /\ "count" \notin Range(calls)

\* C14 as stated: a request whose groups, in the list form of filters or in
\* advanced_filters, hold a group without 'operator' or 'items', with empty
\* 'items', with an item without 'name' or 'value', or with an operator outside
\* and/AND/all/or/OR/any fails with a validation failure
C14_ShapeViolationsSurfaced ==
    (FlatRequest /\ \E i \in 1..Len(GroupsOf(arg)) : MalformedGroup(GroupsOf(arg)[i]))
        => Rejected

\* The raw input of the request holds a condition whose value is null
HasNullCondition ==
    CASE "groups" \in DOMAIN arg ->
            \E i \in 1..Len(arg.groups) : \E j \in 1..Len(arg.groups[i].filters) :
                IsNone(arg.groups[i].filters[j].value)
      [] "url_params" \in DOMAIN arg ->
            \E i \in 1..Len(arg.url_params) :
                /\ arg.url_params[i][1] \notin ReservedKeys
                /\ IsNone(arg.url_params[i][2])
      [] "kwargs" \in DOMAIN arg ->
            \E i \in 1..Len(arg.kwargs) : IsNone(arg.kwargs[i][2])
      [] "size" \in DOMAIN arg -> FALSE
      [] OTHER ->
            \/ /\ "filters" \in DOMAIN arg /\ arg.filters.k = "dict"
               /\ \E i \in 1..Len(arg.filters.v) : IsNone(arg.filters.v[i][2])
            \/ \E i \in 1..Len(GroupsOf(arg)) :
                  /\ "items" \in DOMAIN GroupsOf(arg)[i]
                  /\ \E j \in 1..Len(GroupsOf(arg)[i].items) :
                        /\ "value" \in DOMAIN GroupsOf(arg)[i].items[j]
                        /\ IsNone(GroupsOf(arg)[i].items[j].value)

\* C15 as stated: a request with a null condition value, in whatever entry
\* point and input shape, fails with a validation failure and executes no
\* query
C15_NullValueRejected ==
    (pc # "idle" /\ HasNullCondition) => Rejected

(***************************************************************************)
(* Properties of concurrent requests                                        *)
(***************************************************************************)
\* The outcome in task t is one the same request has when it runs alone on
\* the engine against the store
AsAlone(t) ==
    Let(Started(config, t.fn, t.arg), LAMBDA alone :
        /\ t.fq = alone.fq
        /\ t.count_query = alone.count_query
        /\ (t.pc = "raised" /\ t.calls = <<>>) => (alone.pc = "raised" /\ t.err = alone.err)
        /\ t.pc = "count" => (alone.pc = "count" /\ t.query = alone.query)
        /\ t.calls # <<>> =>
              /\ alone.pc = "count"
              /\ IF t.pc = "raised" /\ t.calls = <<"count">>
                 THEN \/ t.err = ExecCount(alone.count_query, store)
                      \/ /\ t.total = ExecCount(alone.count_query, store)
                         /\ t.err = DataQuery(config, alone)
                 ELSE /\ t.total = ExecCount(alone.count_query, store)
                      /\ t.query = DataQuery(config, alone)
                      /\ t.pc = "done" => t.items \in ExecAll(t.query, store)
                      /\ t.pc = "raised" => t.err \in ExecAll(t.query, store))

TasksAsAlone == \A c \in Callers : tasks[c].pc # "idle" => AsAlone(tasks[c])

\* C16: no entry point changes the engine (its model, config, allow-list and
\* cached field set stay as constructed), and every request of several that
\* interleave on one engine at their awaits, each on its own session, has the
\* outcome it has when run alone against the same store.
C16_StatelessEngine == [][config' = config]_vars /\ []TasksAsAlone

\* C16 witness: one caller has its result while the request of the other,
\* started before, still waits for its page fetch
C16_Witness ==
    /\ tasks["c1"].pc = "done" /\ tasks["c1"].fn = "filter_by_params"
    /\ Len(tasks["c1"].items.v) > 0
    /\ tasks["c2"].pc = "fetch" /\ tasks["c2"].fn = "filter_by_query"
    /\ tasks["c2"].total.v > 1

(***************************************************************************)
(* Properties of the executions on the session                              *)
(***************************************************************************)
\* C17: a request executes on its session the count query first and the page
\* fetch second and nothing else: a request that returned has executed exactly
\* these two, the page fetch is issued only after a count that succeeded, and
\* an error of the storage collaborator, at the count or at the fetch, is the
\* exception the request ends with, unchanged.
C17_CountThenFetch ==
    pc # "idle" =>
        /\ calls \in {<<>>, <<"count">>, <<"count", "fetch">>}
        /\ pc = "count" => calls = <<>>
        /\ pc = "fetch" => calls = <<"count">>
        /\ pc = "done" => calls = <<"count", "fetch">>
        /\ "fetch" \in Range(calls) => ~IsNone(total)
        /\ ~IsNone(total) =>
              /\ ~IsRaised(ExecCount(count_query, store))
              /\ writes = 0 => total = ExecCount(count_query, store)
        /\ (pc = "raised" /\ calls = <<"count">> /\ IsNone(total)) =>
              /\ IsRaised(ExecCount(count_query, store))
              /\ err = ExecCount(count_query, store)
        /\ (pc = "raised" /\ calls = <<"count", "fetch">>) =>
              err \in ExecAll(query, store)

\* C17 witness: a request of filter_by_params that returned after its two
\* executions
C17_Witness ==
    /\ pc = "done" /\ entry.fn = "filter_by_params"
    /\ calls = <<"count", "fetch">>
    /\ Len(query.where) > 0
    /\ total.v > 0

(***************************************************************************)
(* Properties of sorting                                                    *)
(***************************************************************************)
\* C18 as stated: sorting never raises and touches the data query only: the
\* data query is ordered by order_by in the requested direction if that is
\* authorized, else by default_order_by if that is authorized, else not at
\* all, also when the authorized name is no attribute of the model
C18_SortingNeverRaises ==
    (pc # "idle" /\ entry.fn = "filter_by_query" /\ ~IsNone(fq)) =>
        /\ ~(pc = "raised" /\ err.exc = "AttributeError")
        /\ ~IsNone(query) =>
              /\ count_query.order = <<>>
              /\ query.order = EffectiveOrder(fq.order_by, fq.desc)

(***************************************************************************)
(* Properties of the query handed to compilation                            *)
(***************************************************************************)
\* C19 as stated: the FilterQuery or FilterParams any entry point compiles
\* has offset >= 0 and 1 <= limit <= 1000, the FilterQuery filter_by_url builds
\* from the 'offset' and 'limit' URL parameters included, and no data query
\* carries an offset or a limit outside these ranges
C19_OffsetLimitInRange ==
    /\ (pc # "idle" /\ ~IsNone(fq)) =>
          fq.offset >= 0 /\ fq.limit >= 1 /\ fq.limit <= 1000
    /\ (pc # "idle" /\ ~IsNone(query) /\ ~IsNone(query.page)) =>
          query.page.offset >= 0 /\ query.page.limit >= 1 /\ query.page.limit <= 1000

(***************************************************************************)
(* Properties of value coercion                                             *)
(***************************************************************************)
\* C20 as stated: _cast_value never raises; with no declared type it returns
\* the value unchanged; with a declared type it returns the converted value,
\* or the raw value when the conversion fails; and for type bool the result is
\* true exactly when the lower-cased text of the value is one of true, 1, yes,
\* on (a value of None is the raw value in every case)
C20_CastBestEffort ==
    (pure_in.fn = "_cast_value" /\ ~IsNone(pure_out)) =>
        /\ pure_out.k = "returned"
        /\ (IsNone(pure_in.type_hint) \/ pure_in.type_hint.v = ""
              \/ IsNone(pure_in.value)) =>
              pure_out.v = pure_in.value
        /\ (~IsNone(pure_in.type_hint) /\ pure_in.type_hint.v # ""
              /\ ~IsNone(pure_in.value)) =>
              pure_out.v = IF IsRaised(converters(pure_in.type_hint.v,
                                                  pure_in.value))
                           THEN pure_in.value
                           ELSE converters(pure_in.type_hint.v, pure_in.value)
        /\ (~IsNone(pure_in.type_hint) /\ pure_in.type_hint.v = "bool"
              /\ ~IsNone(pure_in.value)) =>
              pure_out.v = BoolV(lower(py_str(pure_in.value))
                                   \in {"true", "1", "yes", "on"})

(***************************************************************************)
(* Message consumer: services/broker.py with TracingService.trace           *)
(*                                                                          *)
(* consumer is the _AsyncRabbitConsumer seen from start_consuming:          *)
(* connection is self._connection (0 for None), connections are numbered in *)
(* the order connect_robust opened them, closed holds those whose is_closed *)
(* is true; using and fresh are the connection the latest consume attempt   *)
(* got from _connect and whether _connect opened it, failed and retry tell  *)
(* whether an attempt has failed and whether the latest attempt followed a  *)
(* failure.  message is the delivery handled last by _process_message.      *)
(***************************************************************************)
\* Connections connect_robust may open in one run
MaxConnections == 3

\* BaseEvent.trace_id default: FastAPILoggerAdapter.DEFAULT_TRACE_ID
DEFAULT_TRACE_ID == "default"

\* message.body of the deliveries
Bodies ==
    { "not json", "[]", "{\"payload\": {}, \"trace_id\": \"t1\"}",
      "{\"payload\": {}}" }

\* event_type.load(json.loads(message.body.decode())): the event, or the
\* exception of json.loads or of the event's validation
load(body) ==
    CASE body = "not json" -> Raised("JSONDecodeError")
      [] body = "[]" -> Raised("ValidationError")
      [] body = "{\"payload\": {}, \"trace_id\": \"t1\"}" ->
            [k |-> "event", trace_id |-> "t1"]
      [] body = "{\"payload\": {}}" ->
            [k |-> "event", trace_id |-> DEFAULT_TRACE_ID]

\* What the receiver coroutine does with an event
Receivers == {"returns None", "returns True", "raises"}

\* await receiver(event=event, message=message)
receiver(r, event) ==
    CASE r = "returns None" -> None
      [] r = "returns True" -> BoolV(TRUE)
      [] r = "raises" -> Raised("Exception")

\* if handling_error:
handling_error_truthy(x) == x.k = "bool" /\ x.v

\* message.ack(), message.nack(requeue=...)
ack == [op |-> "ack", requeue |-> FALSE]
nack(requeue) == [op |-> "nack", requeue |-> requeue]

\* A trace scope that implements the asynchronous protocol
trace_asynccontextmanager(trace_id) ==
    [k |-> "cm", trace_id |-> trace_id, protocol |-> {"__aenter__", "__aexit__"}]

\* TracingService.trace(trace_id): the function is wrapped by
\* contextlib.contextmanager, so the call returns a context manager that
\* implements __enter__ and __exit__; its body has not run yet
trace(trace_id) ==
    [k |-> "cm", trace_id |-> trace_id, protocol |-> {"__enter__", "__exit__"}]

\* `async with cm:` looks up __aenter__ and __aexit__ on the manager and
\* raises TypeError when it has none; otherwise the scope is entered and
\* TRACE_ID is the manager's trace_id
async_with(cm) ==
    IF {"__aenter__", "__aexit__"} \subseteq cm.protocol
    THEN [k |-> "scope", trace_id |-> cm.trace_id]
    ELSE Raised("TypeError")

\* What _process_message did: the settle calls issued on the message in
\* order, and the receiver invocations with the TRACE_ID they ran under
Processed(settles, received) == [calls |-> settles, received |-> received]

\* The first settle call inside the scope: nack(requeue=True) or ack()
settle_for(handling_error) ==
    IF handling_error_truthy(handling_error) THEN nack(TRUE) ELSE ack

\* _process_message after the body parsed (lines 365-384): fails holds the
\* positions of the settle calls that raise
handle_in_scope(scope, event, r, fails) ==
    Let(receiver(r, event), LAMBDA handling_error :
        IF IsRaised(handling_error)
        THEN Processed(<<nack(FALSE)>>,
                       <<[trace_id |-> scope.trace_id, event |-> event]>>)
        ELSE IF 1 \in fails
        THEN Processed(<<settle_for(handling_error), nack(FALSE)>>,
                       <<[trace_id |-> scope.trace_id, event |-> event]>>)
        ELSE Processed(<<settle_for(handling_error)>>,
                       <<[trace_id |-> scope.trace_id, event |-> event]>>))

\* _AsyncRabbitConsumer._process_message; an exception of the last settle
\* call ends in the outer `except Exception`, which logs and returns
_process_message(body, r, fails) ==
    Let(load(body), LAMBDA event :
        IF IsRaised(event)
        THEN Processed(<<nack(FALSE)>>, <<>>)
        ELSE Let(async_with(trace(event.trace_id)), LAMBDA scope :
                 IF IsRaised(scope)
                 THEN Processed(<<nack(FALSE)>>, <<>>)
                 ELSE handle_in_scope(scope, event, r, fails)))

\* The consumer after __init__, before start_consuming is awaited
NewConsumer ==
    [connection |-> 0, opened |-> 0, closed |-> {}, loop |-> "start",
     using |-> 0, fresh |-> FALSE, failed |-> FALSE, retry |-> FALSE]

\* _AsyncRabbitConsumer._connect: the consumer afterwards and the connection
\* returned, or the exception of connect_robust
_connect(self, connect_ok) ==
    IF self.connection # 0 /\ self.connection \notin self.closed
    THEN [self |-> [self EXCEPT !.fresh = FALSE], ret |-> IntV(self.connection)]
    ELSE IF connect_ok
    THEN [self |-> [self EXCEPT !.opened = @ + 1, !.connection = self.opened + 1,
                                !.fresh = TRUE],
          ret |-> IntV(self.opened + 1)]
    ELSE [self |-> self, ret |-> Raised("Exception")]

\* What `await connection.close()` can do
CloseResults == {"closed", "raised, closed", "raised, still open"}

\* finally: if connection and not connection.is_closed: await connection.close()
finally_close(self, connection, close_res) ==
    IF connection \in self.closed \/ close_res = "raised, still open"
    THEN self
    ELSE [self EXCEPT !.closed = @ \cup {connection}]

\* Whether the finally clause of consume raises
finally_raises(self, connection, close_res) ==
    connection \notin self.closed /\ close_res # "closed"

\* _AsyncRabbitConsumer.consume up to `await asyncio.Future()` or to the
\* exception it leaves with
consume(self, connect_ok, setup_ok, close_res) ==
    Let(_connect(self, connect_ok), LAMBDA c :
        IF IsRaised(c.ret)
        THEN [c.self EXCEPT !.using = 0, !.loop = "except"]
        ELSE IF setup_ok
        THEN [c.self EXCEPT !.using = c.ret.v, !.loop = "waiting"]
        ELSE [finally_close(c.self, c.ret.v, close_res) EXCEPT
                 !.using = c.ret.v, !.loop = "except"])

\* start_consuming: `except Exception` logs, then asyncio.sleep(error_timeout)
start_consuming_except(self) == [self EXCEPT !.loop = "sleep", !.failed = TRUE]

\* Filter-engine state while the broker or the injector is exercised
engine_vars ==
    <<store, config, pc, entry, arg, fq, count_query, query, total, items,
      err, calls, writes, pure_in, pure_out, tasks>>

\* start_consuming: one pass of `while True` awaits consume
Consume ==
    /\ consumer.loop = "start"
    /\ consumer.opened < MaxConnections
    /\ \E connect_ok \in BOOLEAN, setup_ok \in BOOLEAN, close_res \in CloseResults :
          consumer' = Let(consume([consumer EXCEPT !.retry = consumer.failed],
                                  connect_ok, setup_ok, close_res),
                          LAMBDA c : IF c.loop = "except"
                                     THEN start_consuming_except(c) ELSE c)
    /\ UNCHANGED <<engine_vars, message, inj>>

\* asyncio.sleep(error_timeout) is over: the loop starts the next attempt
Sleep ==
    /\ consumer.loop = "sleep"
    /\ consumer' = [consumer EXCEPT !.loop = "start"]
    /\ UNCHANGED <<engine_vars, message, inj>>

\* message_handler: the queue delivers a message while consume waits
Deliver ==
    /\ consumer.loop = "waiting"
    /\ \E body \in Bodies, r \in Receivers, fails \in SUBSET {1, 2} :
          message' = [k |-> "message", body |-> body, receiver |-> r,
                      fails |-> fails]
                       @@ _process_message(body, r, fails)
    /\ UNCHANGED <<engine_vars, consumer, inj>>

\* The task of start_consuming is cancelled while consume waits:
\* CancelledError passes `except Exception`, the finally clause closes the
\* connection, and an exception of close() replaces the CancelledError
Cancel ==
    /\ consumer.loop = "waiting"
    /\ \E close_res \in CloseResults :
          consumer' =
             IF finally_raises(consumer, consumer.using, close_res)
             THEN start_consuming_except(
                      finally_close(consumer, consumer.using, close_res))
             ELSE [finally_close(consumer, consumer.using, close_res)
                      EXCEPT !.loop = "cancelled"]
    /\ UNCHANGED <<engine_vars, message, inj>>

InitBroker ==
    /\ store = {}
    /\ config = FilterConfig(None, 50, 1000, None)
    /\ pc = "idle"
    /\ entry = None /\ arg = None /\ fq = None
    /\ count_query = None /\ query = None
    /\ total = None /\ items = None /\ err = None
    /\ calls = <<>> /\ writes = 0
    /\ pure_in = None /\ pure_out = None
    /\ tasks = [c \in Callers |-> IdleTask]
    /\ consumer = NewConsumer /\ message = None /\ inj = None

\* start_consuming with the deliveries of the queue
NextBroker ==
    \/ Consume
    \/ Sleep
    \/ Deliver
    \/ Cancel

SpecBroker == InitBroker /\ [][NextBroker]_vars

C22_ReceiverDecidesSettlement ==
    message.k = "message" =>
        IF IsRaised(load(message.body))
        THEN message.calls = <<nack(FALSE)>> /\ message.received = <<>>
        ELSE /\ message.received =
                   <<[trace_id |-> load(message.body).trace_id,
                      event |-> load(message.body)]>>
             /\ message.receiver = "returns None" => message.calls[1] = ack
             /\ message.receiver = "returns True" => message.calls[1] = nack(TRUE)
             /\ nack(FALSE) \in Range(message.calls) => message.receiver = "raises"

(***************************************************************************)
(* Properties of the consuming loop                                         *)
(***************************************************************************)
\* C23 as stated: start_consuming neither returns nor lets an Exception of
\* consume out (it only ends by cancellation); a failed consume is followed by
\* the sleep and a new attempt; and every attempt that follows a failure runs
\* on a connection that this attempt opened and that is not closed
C23_RetryOnNewConnection ==
    /\ consumer.loop \in {"start", "waiting", "sleep", "cancelled"}
    /\ consumer.loop = "sleep" => consumer.failed
    /\ (consumer.retry /\ consumer.using # 0) => consumer.fresh
    /\ consumer.loop = "waiting" => consumer.using \notin consumer.closed

(***************************************************************************)
(* Connection injector: AsyncPgConnectionInj (injectors/pg.py)              *)
(*                                                                          *)
(* inj holds self._is_setup, self._engine and self._session_factory (0 for  *)
(* None); engines and session factories are numbered in the order they were *)
(* created, disposed holds the engines dispose() completed on, bodies       *)
(* counts the runs of the body of setup that created an engine since the    *)
(* last call of disconnect, and task holds, per task, where its coroutine   *)
(* is suspended.                                                            *)
(***************************************************************************)
\* Engines create_async_engine may create in one run
MaxEngines == 3

\* Tasks sharing the injector
InjTasks == {"t1", "t2"}

\* A task that is in no method of the injector; out is how its last call ended
IdleInjTask == [pc |-> "idle", via |-> "none", engine |-> 0, out |-> "none"]

\* AsyncPgConnectionInj.__init__
NewInjector ==
    [is_setup |-> FALSE, engine |-> 0, session_factory |-> 0,
     engines |-> 0, factories |-> 0, disposed |-> {}, bodies |-> 0,
     task |-> [t \in InjTasks |-> IdleInjTask]]

\* acquire_session after `if not self._is_setup: await self.setup()`:
\* RuntimeError without a session factory, otherwise the session is yielded
acquire_session_yield(self, t) ==
    IF self.session_factory = 0
    THEN [self EXCEPT !.task[t] = [IdleInjTask EXCEPT !.out = "RuntimeError"]]
    ELSE [self EXCEPT !.task[t] = [IdleInjTask EXCEPT !.pc = "session"]]

\* setup returns to its caller: acquire_session goes on, a direct call ends
setup_returns(self, t, via) ==
    IF via = "acquire_session"
    THEN acquire_session_yield(self, t)
    ELSE [self EXCEPT !.task[t] = [IdleInjTask EXCEPT !.out = "returned"]]

\* setup up to its first suspension: the _is_setup check, _ensure_db_exists
\* (which awaits nothing and swallows its errors), create_async_engine, then
\* `async with engine.begin()` suspends the task with the engine in a local;
\* created tells whether create_async_engine returned an engine
setup_begin(self, t, via, created) ==
    IF self.is_setup
    THEN setup_returns(self, t, via)
    ELSE IF ~created
    THEN [self EXCEPT !.task[t] = [IdleInjTask EXCEPT !.out = "Exception"]]
    ELSE [self EXCEPT !.bodies = @ + 1, !.engines = @ + 1,
                      !.task[t] = [pc |-> "creating", via |-> via,
                                   engine |-> self.engines + 1, out |-> "none"]]

\* setup from the return of _create_engine_and_schema: self._engine,
\* self._session_factory and self._is_setup are assigned
setup_finish(self, t) ==
    setup_returns([self EXCEPT !.engine = self.task[t].engine,
                               !.factories = @ + 1,
                               !.session_factory = self.factories + 1,
                               !.is_setup = TRUE],
                  t, self.task[t].via)

\* disconnect returns; its except clause swallows what remove or dispose raised
disconnect_returns(self, t) ==
    [self EXCEPT !.task[t] = [IdleInjTask EXCEPT !.out = "returned"]]

\* disconnect from `if self._engine:` on
disconnect_engine(self, t) ==
    IF self.engine # 0
    THEN [self EXCEPT !.task[t] = [IdleInjTask EXCEPT !.pc = "disposing",
                                                      !.engine = self.engine]]
    ELSE disconnect_returns([self EXCEPT !.is_setup = FALSE], t)

\* disconnect up to its first suspension
disconnect_begin(self, t) ==
    IF self.session_factory # 0
    THEN [self EXCEPT !.bodies = 0,
                      !.task[t] = [IdleInjTask EXCEPT !.pc = "removing"]]
    ELSE disconnect_engine([self EXCEPT !.bodies = 0], t)

\* `await self._session_factory.remove()` is over; ok tells whether it returned
disconnect_removed(self, t, ok) ==
    IF ok
    THEN disconnect_engine([self EXCEPT !.session_factory = 0], t)
    ELSE disconnect_returns(self, t)

\* `await self._engine.dispose()` is over; ok tells whether it returned
disconnect_disposed(self, t, ok) ==
    IF ok
    THEN disconnect_returns(
             [self EXCEPT !.disposed = @ \cup {self.task[t].engine},
                          !.engine = 0, !.is_setup = FALSE], t)
    ELSE disconnect_returns(self, t)

\* Task t awaits setup()
CallSetup(t) ==
    /\ inj.task[t].pc = "idle"
    /\ inj.engines < MaxEngines
    /\ \E created \in BOOLEAN : inj' = setup_begin(inj, t, "setup", created)
    /\ UNCHANGED <<engine_vars, consumer, message>>

\* Task t enters `async with acquire_session()`
CallAcquireSession(t) ==
    /\ inj.task[t].pc = "idle"
    /\ inj.engines < MaxEngines
    /\ \E created \in BOOLEAN :
          inj' = setup_begin(inj, t, "acquire_session", created)
    /\ UNCHANGED <<engine_vars, consumer, message>>

\* _create_engine_and_schema returns to the setup of task t
SetupResumes(t) ==
    /\ inj.task[t].pc = "creating"
    /\ inj' = setup_finish(inj, t)
    /\ UNCHANGED <<engine_vars, consumer, message>>

\* Task t leaves the `async with` of its session
ReleaseSession(t) ==
    /\ inj.task[t].pc = "session"
    /\ inj' = [inj EXCEPT !.task[t] = [IdleInjTask EXCEPT !.out = "returned"]]
    /\ UNCHANGED <<engine_vars, consumer, message>>

\* Task t awaits disconnect()
CallDisconnect(t) ==
    /\ inj.task[t].pc = "idle"
    /\ inj' = disconnect_begin(inj, t)
    /\ UNCHANGED <<engine_vars, consumer, message>>

\* The removal of the session factory ends, returning or raising
RemoveReturns(t) ==
    /\ inj.task[t].pc = "removing"
    /\ \E ok \in BOOLEAN : inj' = disconnect_removed(inj, t, ok)
    /\ UNCHANGED <<engine_vars, consumer, message>>

\* The disposal of the engine ends, returning or raising
DisposeReturns(t) ==
    /\ inj.task[t].pc = "disposing"
    /\ \E ok \in BOOLEAN : inj' = disconnect_disposed(inj, t, ok)
    /\ UNCHANGED <<engine_vars, consumer, message>>

InitInjector ==
    /\ store = {}
    /\ config = FilterConfig(None, 50, 1000, None)
    /\ pc = "idle"
    /\ entry = None /\ arg = None /\ fq = None
    /\ count_query = None /\ query = None
    /\ total = None /\ items = None /\ err = None
    /\ calls = <<>> /\ writes = 0
    /\ pure_in = None /\ pure_out = None
    /\ tasks = [c \in Callers |-> IdleTask]
    /\ consumer = None /\ message = None /\ inj = NewInjector

\* Tasks calling setup, acquire_session and disconnect on one injector
NextInjector ==
    \/ \E t \in InjTasks : CallSetup(t)
    \/ \E t \in InjTasks : CallAcquireSession(t)
    \/ \E t \in InjTasks : SetupResumes(t)
    \/ \E t \in InjTasks : ReleaseSession(t)
    \/ \E t \in InjTasks : CallDisconnect(t)
    \/ \E t \in InjTasks : RemoveReturns(t)
    \/ \E t \in InjTasks : DisposeReturns(t)

SpecInjector == InitInjector /\ [][NextInjector]_vars

(***************************************************************************)
(* Properties of the injector                                               *)
(***************************************************************************)
\* Engines that were created and not disposed
LiveEngines == {e \in 1..inj.engines : e \notin inj.disposed}

\* Engines a coroutine still holds in a local
HeldEngines ==
    {inj.task[t].engine : t \in {u \in InjTasks : inj.task[u].pc # "idle"}}

\* C24 as stated: between two disconnects at most one run of the body of setup
\* creates an engine, also when several tasks call setup or acquire_session
\* before setup has completed, and every engine created and not disposed is
\* the one the injector refers to (or is still held by the coroutine that is
\* creating or disposing it)
C24_SetupRunsOnce ==
    /\ inj.bodies <= 1
    /\ LiveEngines \subseteq ({inj.engine} \cup HeldEngines)

\* No coroutine is inside disconnect
NoDisconnectInProgress ==
    \A t \in InjTasks : inj.task[t].pc \notin {"removing", "disposing"}

\* C25 as stated: once the calls of disconnect have ended, whatever failed in
\* them or in setup, _is_setup is true only if both the engine and the session
\* factory are present; acquire_session raises RuntimeError exactly when it
\* finds _is_setup true (or setup done) and no session factory
C25_SetupImpliesFactory ==
    NoDisconnectInProgress =>
        (inj.is_setup => (inj.engine # 0 /\ inj.session_factory # 0))

====
